---------------------------- MODULE Spec2Model ----------------------------
(***************************************************************************)
(* Delta-rule linear-recurrent state engine                                *)
(* (fla/ops/delta_rule/fused_recurrent.py).                                *)
(*                                                                         *)
(* Tensors are contiguous row-major buffers addressed by the kernels'      *)
(* pointer arithmetic.  Arithmetic is exact integer arithmetic: the        *)
(* rounding of float32 / working-precision stores is outside the model.    *)
(* A kernel's pointer p that the loop advances by a stride per iteration   *)
(* is modelled as base + t * stride, t being the iteration counter.        *)
(***************************************************************************)
EXTENDS Integers, Sequences, FiniteSets, TLC

VARIABLES
    tc,      \* the caller's test case: scenario, shapes, flags, input seed
    pc,      \* host position: "call" | "fwd" | "bwd" | "done" | "error"
    callIdx, \* number of the current call of the scenario (1-based)
    args,    \* arguments of the kernel launch in flight
    mem,     \* buffers allocated by the host function in flight
    units,   \* registers of every program (i_v, i_k, i_nh) of the grid
    ctx,     \* autograd context saved by FusedRecurrentFunction.forward
    log      \* results returned by the calls finished so far

vars == <<tc, pc, callIdx, args, mem, units, ctx, log>>

---------------------------------------------------------------------------
(* Bounds of the model *)

MaxN == 2
MaxH == 2
MaxT == 3
MaxK == 2
MaxV == 2
MaxElems == 6
MaxSeed == 2
MaxScale == 2

---------------------------------------------------------------------------
(* Tensors *)

None == [none |-> TRUE, shape |-> <<>>, data |-> <<>>]

Tensor(shape, data) == [none |-> FALSE, shape |-> shape, data |-> data]

RECURSIVE Numel(_)
Numel(shape) ==
    IF shape = <<>> THEN 1 ELSE Head(shape) * Numel(Tail(shape))

Idx(shape) == 0 .. (Numel(shape) - 1)

\* torch.empty: no element holds a value until it is stored.
Empty(shape) == Tensor(shape, <<>>)

Written(t) == DOMAIN t.data

Full(t) == Written(t) = Idx(t.shape)

\* tl.store of the lanes `lanes` (those the mask keeps) of val at base + lane.
Store(data, base, lanes, val) ==
    [a \in DOMAIN data \cup {base + l : l \in lanes} |->
        IF \E l \in lanes : a = base + l THEN val[a - base] ELSE data[a]]

RECURSIVE SumLanes(_, _)
SumLanes(f, n) == IF n = 0 THEN 0 ELSE f[n - 1] + SumLanes(f, n - 1)

RECURSIVE Pow2From(_, _)
Pow2From(p, n) == IF p >= n THEN p ELSE Pow2From(2 * p, n)

next_power_of_2(n) == Pow2From(1, n)

cdiv(a, b) == (a + b - 1) \div b

Min(a, b) == IF a < b THEN a ELSE b

FwdBVCap == 8

BwdBVCap == 32

---------------------------------------------------------------------------
(* The caller's inputs *)

\* Element i of the input tensor numbered salt: seed 0 is the all-ones input,
\* the other seeds give mixed values in -1 .. 2, a different pattern for
\* every tensor.
Gen(seed, salt, i) ==
    IF seed = 0 THEN 1
    ELSE (((seed * 3 + salt * 5 + i * (salt + 2 * seed + 1)
               + i * i * (seed + salt)) % 7) % 4) - 1

GenTensor(seed, salt, shape) ==
    Tensor(shape, [i \in Idx(shape) |-> Gen(seed, salt, i)])

RECURSIVE SumSeq(_)
SumSeq(s) == IF s = <<>> THEN 0 ELSE Head(s) + SumSeq(Tail(s))

\* cu_seqlens of the sequence lengths lens: [0, l1, l1 + l2, ...].
CuSeqlens(lens) ==
    Tensor(<<Len(lens) + 1>>,
           [i \in 0 .. Len(lens) |-> SumSeq(SubSeq(lens, 1, i))])

TcN(c) == IF c.varlen THEN Len(c.lens) ELSE c.B

TcB(c) == IF c.varlen THEN 1 ELSE c.B

TcT(c) == IF c.varlen THEN SumSeq(c.lens) ELSE c.T

BetaShape(c) ==
    IF c.headwise THEN <<TcB(c), TcT(c), c.H, c.V>> ELSE <<TcB(c), TcT(c), c.H>>

TcBeta(c) ==
    IF c.betaKind = "zero"
    THEN Tensor(BetaShape(c), [i \in Idx(BetaShape(c)) |-> 0])
    ELSE GenTensor(c.seed, 4, BetaShape(c))

\* The arguments of fused_recurrent_delta_rule for test case c.
TcInputs(c) ==
    [q |-> GenTensor(c.seed, 1, <<TcB(c), TcT(c), c.H, c.K>>),
     k |-> GenTensor(c.seed, 2, <<TcB(c), TcT(c), c.H, c.K>>),
     v |-> GenTensor(c.seed, 3, <<TcB(c), TcT(c), c.H, c.V>>),
     beta |-> TcBeta(c),
     scale |-> c.scale,
     scale_den |-> 1,
     scale_none |-> FALSE,
     initial_state |->
        IF c.h0kind = "none" THEN None
        ELSE GenTensor(c.seed, 5, <<TcN(c), c.H, c.K, c.V>>),
     requires_grad |-> c.h0kind = "grad",
     output_final_state |-> c.ofs,
     cu_seqlens |-> IF c.varlen THEN CuSeqlens(c.lens) ELSE None]

---------------------------------------------------------------------------
(* fused_recurrent_delta_rule_fwd_kernel *)

\* b_q * scale (lines 75, 167 and 242): the scale is the fraction
\* scale / scale_den, and the products the model forms are whole numbers.
Scaled(a, x) == (x * a.scale) \div a.scale_den

\* A kernel that starts every packed sequence at token 0.
FwdKernelEntry_NoOffset(a, i_v, i_k, i_nh) ==
    LET i_n == i_nh \div a.H
        i_h == i_nh % a.H
        IS_VARLEN == ~a.cu_seqlens.none
        bos == IF IS_VARLEN THEN a.cu_seqlens.data[i_n] ELSE i_n * a.T
        eos == IF IS_VARLEN THEN a.cu_seqlens.data[i_n + 1] ELSE i_n * a.T + a.T
        mask_k == [i \in 0 .. a.BK - 1 |-> i_k * a.BK + i < a.K]
        mask_v == [j \in 0 .. a.BV - 1 |-> i_v * a.BV + j < a.V]
        USE_INITIAL_STATE == ~a.h0.none
        p_h0 == [j \in 0 .. a.BV - 1 |-> [i \in 0 .. a.BK - 1 |->
                    i_nh * a.K * a.V + (i_k * a.BK + i) * a.V + (i_v * a.BV + j)]]
    IN  [pc |-> "loop",
         t |-> 0,
         bos |-> IF IS_VARLEN THEN 0 ELSE bos,
         T |-> IF IS_VARLEN THEN eos - bos ELSE a.T,
         all |-> IF IS_VARLEN THEN a.T ELSE a.B * a.T,
         b_h |-> [j \in 0 .. a.BV - 1 |-> [i \in 0 .. a.BK - 1 |->
                    IF USE_INITIAL_STATE /\ mask_k[i] /\ mask_v[j]
                    THEN a.h0.data[p_h0[j][i]] ELSE 0]],
         b_dh |-> <<>>]

\* A kernel that starts every sequence from the zero state.
FwdKernelEntry_ZeroState(a, i_v, i_k, i_nh) ==
    LET i_n == i_nh \div a.H
        i_h == i_nh % a.H
        IS_VARLEN == ~a.cu_seqlens.none
        bos == IF IS_VARLEN THEN a.cu_seqlens.data[i_n] ELSE i_n * a.T
        eos == IF IS_VARLEN THEN a.cu_seqlens.data[i_n + 1] ELSE i_n * a.T + a.T
        mask_k == [i \in 0 .. a.BK - 1 |-> i_k * a.BK + i < a.K]
        mask_v == [j \in 0 .. a.BV - 1 |-> i_v * a.BV + j < a.V]
        USE_INITIAL_STATE == ~a.h0.none
        p_h0 == [j \in 0 .. a.BV - 1 |-> [i \in 0 .. a.BK - 1 |->
                    i_nh * a.K * a.V + (i_k * a.BK + i) * a.V + (i_v * a.BV + j)]]
    IN  [pc |-> "loop",
         t |-> 0,
         bos |-> bos,
         T |-> IF IS_VARLEN THEN eos - bos ELSE a.T,
         all |-> IF IS_VARLEN THEN a.T ELSE a.B * a.T,
         b_h |-> [j \in 0 .. a.BV - 1 |-> [i \in 0 .. a.BK - 1 |->
                    0]],
         b_dh |-> <<>>]

\* A kernel in which every sequence starts from the initial state of the
\* first one.
FwdKernelEntry_SharedState(a, i_v, i_k, i_nh) ==
    LET i_n == i_nh \div a.H
        i_h == i_nh % a.H
        IS_VARLEN == ~a.cu_seqlens.none
        bos == IF IS_VARLEN THEN a.cu_seqlens.data[i_n] ELSE i_n * a.T
        eos == IF IS_VARLEN THEN a.cu_seqlens.data[i_n + 1] ELSE i_n * a.T + a.T
        mask_k == [i \in 0 .. a.BK - 1 |-> i_k * a.BK + i < a.K]
        mask_v == [j \in 0 .. a.BV - 1 |-> i_v * a.BV + j < a.V]
        USE_INITIAL_STATE == ~a.h0.none
        p_h0 == [j \in 0 .. a.BV - 1 |-> [i \in 0 .. a.BK - 1 |->
                    i_h * a.K * a.V + (i_k * a.BK + i) * a.V + (i_v * a.BV + j)]]
    IN  [pc |-> "loop",
         t |-> 0,
         bos |-> bos,
         T |-> IF IS_VARLEN THEN eos - bos ELSE a.T,
         all |-> IF IS_VARLEN THEN a.T ELSE a.B * a.T,
         b_h |-> [j \in 0 .. a.BV - 1 |-> [i \in 0 .. a.BK - 1 |->
                    IF USE_INITIAL_STATE /\ mask_k[i] /\ mask_v[j]
                    THEN a.h0.data[p_h0[j][i]] ELSE 0]],
         b_dh |-> <<>>]

\* Lines 43-70: program ids, sequence bounds, masks, initial state load.
FwdKernelEntry(a, i_v, i_k, i_nh) ==
    LET i_n == i_nh \div a.H
        i_h == i_nh % a.H
        IS_VARLEN == ~a.cu_seqlens.none
        bos == IF IS_VARLEN THEN a.cu_seqlens.data[i_n] ELSE i_n * a.T
        eos == IF IS_VARLEN THEN a.cu_seqlens.data[i_n + 1] ELSE i_n * a.T + a.T
        mask_k == [i \in 0 .. a.BK - 1 |-> i_k * a.BK + i < a.K]
        mask_v == [j \in 0 .. a.BV - 1 |-> i_v * a.BV + j < a.V]
        USE_INITIAL_STATE == ~a.h0.none
        p_h0 == [j \in 0 .. a.BV - 1 |-> [i \in 0 .. a.BK - 1 |->
                    i_nh * a.K * a.V + (i_k * a.BK + i) * a.V + (i_v * a.BV + j)]]
    IN  [pc |-> "loop",
         t |-> 0,
         bos |-> bos,
         T |-> IF IS_VARLEN THEN eos - bos ELSE a.T,
         all |-> IF IS_VARLEN THEN a.T ELSE a.B * a.T,
         b_h |-> [j \in 0 .. a.BV - 1 |-> [i \in 0 .. a.BK - 1 |->
                    IF USE_INITIAL_STATE /\ mask_k[i] /\ mask_v[j]
                    THEN a.h0.data[p_h0[j][i]] ELSE 0]],
         b_dh |-> <<>>]

\* A kernel that addresses a vector beta as a scalar one.
FwdPtrBeta_ScalarStride(a, r, i_v, i_h) == r.bos * a.H + i_h + r.t * a.H

\* Lines 57-60 and 94: the address of beta at iteration t.
FwdPtrBeta(a, r, i_v, i_h) ==
    IF a.IS_BETA_HEADWISE
    THEN (r.bos * a.H + i_h) * a.V + i_v * a.BV + r.t * a.H * a.V
    ELSE r.bos * a.H + i_h + r.t * a.H

\* A kernel that stores the raw value, not its residual.
FwdResidual_Raw(a, b_h, b_k, b_v) == b_v

\* Lines 76-77: the residual of the value against the state's prediction.
FwdResidual(a, b_h, b_k, b_v) ==
    [j \in 0 .. a.BV - 1 |->
        b_v[j] - SumLanes([i \in 0 .. a.BK - 1 |-> b_h[j][i] * b_k[i]], a.BK)]

\* A kernel that does not gate the residual.
FwdGate_Ungated(a, b_v, b_beta) == b_v

\* Line 83: the residual scaled by beta.
FwdGate(a, b_v, b_beta) == [j \in 0 .. a.BV - 1 |-> b_v[j] * b_beta[j]]

\* A kernel that reads the output before it updates the state.
FwdKernelIter_ReadBeforeUpdate(a, m, r, i_v, i_k, i_nh) ==
    LET i_h == i_nh % a.H
        lanesK == 0 .. a.BK - 1
        lanesV == 0 .. a.BV - 1
        mask_k == [i \in lanesK |-> i_k * a.BK + i < a.K]
        mask_v == [j \in lanesV |-> i_v * a.BV + j < a.V]
        p_qk == (r.bos * a.H + i_h) * a.K + i_k * a.BK + r.t * a.H * a.K
        p_v == (r.bos * a.H + i_h) * a.V + i_v * a.BV + r.t * a.H * a.V
        p_beta == FwdPtrBeta(a, r, i_v, i_h)
        p_o == ((i_k * r.all + r.bos) * a.H + i_h) * a.V + i_v * a.BV
                   + r.t * a.H * a.V
        b_k == [i \in lanesK |-> IF mask_k[i] THEN a.k.data[p_qk + i] ELSE 0]
        b_v0 == [j \in lanesV |-> IF mask_v[j] THEN a.v.data[p_v + j] ELSE 0]
        b_q == [i \in lanesK |->
                   Scaled(a, IF mask_k[i] THEN a.q.data[p_qk + i] ELSE 0)]
        b_v1 == FwdResidual(a, r.b_h, b_k, b_v0)
        b_beta == [j \in lanesV |->
                   IF a.IS_BETA_HEADWISE
                   THEN (IF mask_v[j] THEN a.beta.data[p_beta + j] ELSE 0)
                   ELSE a.beta.data[p_beta]]
        b_v2 == FwdGate(a, b_v1, b_beta)
        b_o == [j \in lanesV |->
                   SumLanes([i \in lanesK |-> r.b_h[j][i] * b_q[i]], a.BK)]
        keepV == {j \in lanesV : mask_v[j]}
    IN  [regs |-> [r EXCEPT !.b_h = [j \in lanesV |-> [i \in lanesK |->
                                        r.b_h[j][i] + b_k[i] * b_v2[j]]],
                            !.t = r.t + 1],
         u |-> Store(m.u.data, p_v, keepV, b_v1),
         o |-> Store(m.o.data, p_o, keepV, b_o)]

\* A kernel whose value blocks all store to the first block of u and o.
FwdKernelIter_SharedBlock(a, m, r, i_v, i_k, i_nh) ==
    LET i_h == i_nh % a.H
        lanesK == 0 .. a.BK - 1
        lanesV == 0 .. a.BV - 1
        mask_k == [i \in lanesK |-> i_k * a.BK + i < a.K]
        mask_v == [j \in lanesV |-> i_v * a.BV + j < a.V]
        p_q == (r.bos * a.H + i_h) * a.K + i_k * a.BK + r.t * a.H * a.K
        p_k == (r.bos * a.H + i_h) * a.K + i_k * a.BK + r.t * a.H * a.K
        p_v == (r.bos * a.H + i_h) * a.V + i_v * a.BV + r.t * a.H * a.V
        p_u == (r.bos * a.H + i_h) * a.V + r.t * a.H * a.V
        p_beta == FwdPtrBeta(a, r, i_v, i_h)
        p_o == ((i_k * r.all + r.bos) * a.H + i_h) * a.V
                   + r.t * a.H * a.V
        b_k == [i \in lanesK |-> IF mask_k[i] THEN a.k.data[p_k + i] ELSE 0]
        b_v0 == [j \in lanesV |-> IF mask_v[j] THEN a.v.data[p_v + j] ELSE 0]
        b_q == [i \in lanesK |->
                   Scaled(a, IF mask_k[i] THEN a.q.data[p_q + i] ELSE 0)]
        b_v1 == FwdResidual(a, r.b_h, b_k, b_v0)
        b_beta == [j \in lanesV |->
                   IF a.IS_BETA_HEADWISE
                   THEN (IF mask_v[j] THEN a.beta.data[p_beta + j] ELSE 0)
                   ELSE a.beta.data[p_beta]]
        b_v2 == FwdGate(a, b_v1, b_beta)
        b_h == [j \in lanesV |-> [i \in lanesK |->
                   r.b_h[j][i] + b_k[i] * b_v2[j]]]
        b_o == [j \in lanesV |->
                   SumLanes([i \in lanesK |-> b_h[j][i] * b_q[i]], a.BK)]
        keepV == {j \in lanesV : mask_v[j]}
    IN  [regs |-> [r EXCEPT !.b_h = b_h, !.t = r.t + 1],
         u |-> Store(m.u.data, p_u, keepV, b_v1),
         o |-> Store(m.o.data, p_o, keepV, b_o)]

\* Lines 72-94: one iteration of the time loop; the registers and the
\* buffers u and o after it.
FwdKernelIter(a, m, r, i_v, i_k, i_nh) ==
    LET i_h == i_nh % a.H
        lanesK == 0 .. a.BK - 1
        lanesV == 0 .. a.BV - 1
        mask_k == [i \in lanesK |-> i_k * a.BK + i < a.K]
        mask_v == [j \in lanesV |-> i_v * a.BV + j < a.V]
        p_q == (r.bos * a.H + i_h) * a.K + i_k * a.BK + r.t * a.H * a.K
        p_k == (r.bos * a.H + i_h) * a.K + i_k * a.BK + r.t * a.H * a.K
        p_v == (r.bos * a.H + i_h) * a.V + i_v * a.BV + r.t * a.H * a.V
        p_u == (r.bos * a.H + i_h) * a.V + i_v * a.BV + r.t * a.H * a.V
        p_beta == FwdPtrBeta(a, r, i_v, i_h)
        p_o == ((i_k * r.all + r.bos) * a.H + i_h) * a.V + i_v * a.BV
                   + r.t * a.H * a.V
        b_k == [i \in lanesK |-> IF mask_k[i] THEN a.k.data[p_k + i] ELSE 0]
        b_v0 == [j \in lanesV |-> IF mask_v[j] THEN a.v.data[p_v + j] ELSE 0]
        b_q == [i \in lanesK |->
                   Scaled(a, IF mask_k[i] THEN a.q.data[p_q + i] ELSE 0)]
        b_v1 == FwdResidual(a, r.b_h, b_k, b_v0)
        b_beta == [j \in lanesV |->
                   IF a.IS_BETA_HEADWISE
                   THEN (IF mask_v[j] THEN a.beta.data[p_beta + j] ELSE 0)
                   ELSE a.beta.data[p_beta]]
        b_v2 == FwdGate(a, b_v1, b_beta)
        b_h == [j \in lanesV |-> [i \in lanesK |->
                   r.b_h[j][i] + b_k[i] * b_v2[j]]]
        b_o == [j \in lanesV |->
                   SumLanes([i \in lanesK |-> b_h[j][i] * b_q[i]], a.BK)]
        keepV == {j \in lanesV : mask_v[j]}
    IN  [regs |-> [r EXCEPT !.b_h = b_h, !.t = r.t + 1],
         u |-> Store(m.u.data, p_u, keepV, b_v1),
         o |-> Store(m.o.data, p_o, keepV, b_o)]

\* Lines 96-98: the final state store, b_h[j][i] to ht[i_nh, k, v].
FwdKernelFinal(a, m, r, i_v, i_k, i_nh) ==
    LET cells == {<<j, i>> \in (0 .. a.BV - 1) \X (0 .. a.BK - 1) :
                     i_k * a.BK + i < a.K /\ i_v * a.BV + j < a.V}
        p_ht(c) == i_nh * a.K * a.V + (i_k * a.BK + c[2]) * a.V
                       + (i_v * a.BV + c[1])
    IN  [x \in DOMAIN m.ht.data \cup {p_ht(c) : c \in cells} |->
            IF \E c \in cells : x = p_ht(c)
            THEN LET c == CHOOSE c \in cells : x = p_ht(c)
                 IN  r.b_h[c[1]][c[2]]
            ELSE m.ht.data[x]]

---------------------------------------------------------------------------
(* fused_recurrent_delta_rule_bwd_kernel *)

\* A kernel that ignores the final-state gradient.
BwdKernelEntry_IgnoreDht(a, i_v, i_k, i_nh) ==
    LET i_n == i_nh \div a.H
        IS_VARLEN == ~a.cu_seqlens.none
        bos == IF IS_VARLEN THEN a.cu_seqlens.data[i_n] ELSE i_n * a.T
        eos == IF IS_VARLEN THEN a.cu_seqlens.data[i_n + 1] ELSE i_n * a.T + a.T
    IN  [pc |-> "passA", t |-> 0, bos |-> bos,
         T |-> IF IS_VARLEN THEN eos - bos ELSE a.T,
         all |-> IF IS_VARLEN THEN a.T ELSE a.B * a.T,
         b_h |-> <<>>,
         b_dh |-> [i \in 0 .. a.BK - 1 |-> [j \in 0 .. a.BV - 1 |-> 0]]]

\* A kernel that starts every packed sequence at token 0.
BwdKernelEntry_NoOffset(a, i_v, i_k, i_nh) ==
    LET i_n == i_nh \div a.H
        IS_VARLEN == ~a.cu_seqlens.none
        bos == IF IS_VARLEN THEN a.cu_seqlens.data[i_n] ELSE i_n * a.T
        eos == IF IS_VARLEN THEN a.cu_seqlens.data[i_n + 1] ELSE i_n * a.T + a.T
        mask_k == [i \in 0 .. a.BK - 1 |-> i_k * a.BK + i < a.K]
        mask_v == [j \in 0 .. a.BV - 1 |-> i_v * a.BV + j < a.V]
        USE_FINAL_STATE_GRADIENT == ~a.dht.none
        p_ht == [i \in 0 .. a.BK - 1 |-> [j \in 0 .. a.BV - 1 |->
                    i_nh * a.K * a.V + (i_k * a.BK + i) * a.V + (i_v * a.BV + j)]]
    IN  [pc |-> "passA",
         t |-> 0,
         bos |-> IF IS_VARLEN THEN 0 ELSE bos,
         T |-> IF IS_VARLEN THEN eos - bos ELSE a.T,
         all |-> IF IS_VARLEN THEN a.T ELSE a.B * a.T,
         b_h |-> <<>>,
         b_dh |-> [i \in 0 .. a.BK - 1 |-> [j \in 0 .. a.BV - 1 |->
                    IF USE_FINAL_STATE_GRADIENT /\ mask_k[i] /\ mask_v[j]
                    THEN a.dht.data[p_ht[i][j]] ELSE 0]]]

\* Lines 135-164: program ids, sequence bounds, the accumulator b_dh seeded
\* from dht when a final-state gradient is passed.
BwdKernelEntry(a, i_v, i_k, i_nh) ==
    LET i_n == i_nh \div a.H
        IS_VARLEN == ~a.cu_seqlens.none
        bos == IF IS_VARLEN THEN a.cu_seqlens.data[i_n] ELSE i_n * a.T
        eos == IF IS_VARLEN THEN a.cu_seqlens.data[i_n + 1] ELSE i_n * a.T + a.T
        mask_k == [i \in 0 .. a.BK - 1 |-> i_k * a.BK + i < a.K]
        mask_v == [j \in 0 .. a.BV - 1 |-> i_v * a.BV + j < a.V]
        USE_FINAL_STATE_GRADIENT == ~a.dht.none
        p_ht == [i \in 0 .. a.BK - 1 |-> [j \in 0 .. a.BV - 1 |->
                    i_nh * a.K * a.V + (i_k * a.BK + i) * a.V + (i_v * a.BV + j)]]
    IN  [pc |-> "passA",
         t |-> 0,
         bos |-> bos,
         T |-> IF IS_VARLEN THEN eos - bos ELSE a.T,
         all |-> IF IS_VARLEN THEN a.T ELSE a.B * a.T,
         b_h |-> <<>>,
         b_dh |-> [i \in 0 .. a.BK - 1 |-> [j \in 0 .. a.BV - 1 |->
                    IF USE_FINAL_STATE_GRADIENT /\ mask_k[i] /\ mask_v[j]
                    THEN a.dht.data[p_ht[i][j]] ELSE 0]]]

\* A kernel whose scalar-mode beta gradient misses the sum over V.
BwdDbeta_NoSum(a, b_dv, b_v) ==
    IF a.IS_BETA_HEADWISE
    THEN [j \in 0 .. a.BV - 1 |-> b_dv[j] * b_v[j]]
    ELSE [j \in {0} |-> b_dv[0] * b_v[0]]

\* Line 179: the gradient of beta, per value feature (vector mode) or summed
\* over the value features (scalar mode, held in lane 0).
BwdDbeta(a, b_dv, b_v) ==
    IF a.IS_BETA_HEADWISE
    THEN [j \in 0 .. a.BV - 1 |-> b_dv[j] * b_v[j]]
    ELSE [j \in {0} |->
             SumLanes([l \in 0 .. a.BV - 1 |-> b_dv[l] * b_v[l]], a.BV)]

\* Lines 166-198: iteration r.t of the reverse-time loop (timestep
\* T - 1 - r.t); the registers and the buffers dk, dv, db after it.
BwdPassAIter(a, m, r, i_v, i_k, i_nh) ==
    LET i_h == i_nh % a.H
        lanesK == 0 .. a.BK - 1
        lanesV == 0 .. a.BV - 1
        mask_k == [i \in lanesK |-> i_k * a.BK + i < a.K]
        mask_v == [j \in lanesV |-> i_v * a.BV + j < a.V]
        p_q == (r.bos * a.H + i_h) * a.K + i_k * a.BK
                   + (r.T - 1) * a.H * a.K - r.t * a.H * a.K
        p_k == (r.bos * a.H + i_h) * a.K + i_k * a.BK
                   + (r.T - 1) * a.H * a.K - r.t * a.H * a.K
        p_v == (r.bos * a.H + i_h) * a.V + i_v * a.BV
                   + (r.T - 1) * a.H * a.V - r.t * a.H * a.V
        p_do == (r.bos * a.H + i_h) * a.V + i_v * a.BV
                   + (r.T - 1) * a.H * a.V - r.t * a.H * a.V
        p_dk == ((i_v * r.all + r.bos) * a.H + i_h) * a.K + i_k * a.BK
                   + (r.T - 1) * a.H * a.K - r.t * a.H * a.K
        p_dv == ((i_k * r.all + r.bos) * a.H + i_h) * a.V + i_v * a.BV
                   + (r.T - 1) * a.H * a.V - r.t * a.H * a.V
        p_beta == IF a.IS_BETA_HEADWISE
                  THEN (r.bos + r.T - 1) * a.H * a.V + i_h * a.V + i_v * a.BV
                           - r.t * a.H * a.V
                  ELSE (r.bos + r.T - 1) * a.H + i_h - r.t * a.H
        p_dbeta == IF a.IS_BETA_HEADWISE
                   THEN ((i_v * a.NK + i_k) * r.all + r.bos + r.T - 1) * a.H * a.V
                            + i_h * a.V - r.t * a.H * a.V
                   ELSE (i_v * r.all + r.bos + r.T - 1) * a.H + i_h - r.t * a.H
        b_q == [i \in lanesK |->
                   Scaled(a, IF mask_k[i] THEN a.q.data[p_q + i] ELSE 0)]
        b_k == [i \in lanesK |-> IF mask_k[i] THEN a.k.data[p_k + i] ELSE 0]
        b_v == [j \in lanesV |-> IF mask_v[j] THEN a.v.data[p_v + j] ELSE 0]
        b_do == [j \in lanesV |-> IF mask_v[j] THEN a.do.data[p_do + j] ELSE 0]
        b_beta == [j \in lanesV |->
                   IF a.IS_BETA_HEADWISE
                   THEN (IF mask_v[j] THEN a.beta.data[p_beta + j] ELSE 0)
                   ELSE a.beta.data[p_beta]]
        b_dh1 == [i \in lanesK |-> [j \in lanesV |->
                   r.b_dh[i][j] + b_q[i] * b_do[j]]]
        b_dk == [i \in lanesK |->
                   SumLanes([j \in lanesV |-> b_dh1[i][j] * (b_v[j] * b_beta[j])],
                            a.BV)]
        b_dv0 == [j \in lanesV |->
                   SumLanes([i \in lanesK |-> b_dh1[i][j] * b_k[i]], a.BK)]
        b_db == BwdDbeta(a, b_dv0, b_v)
        b_dv == [j \in lanesV |-> b_dv0[j] * b_beta[j]]
        b_dh2 == [i \in lanesK |-> [j \in lanesV |->
                   b_dh1[i][j] - b_k[i] * b_dv[j]]]
        keepK == {i \in lanesK : mask_k[i]}
        keepV == {j \in lanesV : mask_v[j]}
    IN  [regs |-> [r EXCEPT !.b_dh = b_dh2, !.t = r.t + 1],
         dk |-> Store(m.dk.data, p_dk, keepK, b_dk),
         dv |-> Store(m.dv.data, p_dv, keepV, b_dv),
         db |-> Store(m.db.data, p_dbeta,
                      IF a.IS_BETA_HEADWISE THEN keepV ELSE {0}, b_db)]

\* Lines 200-202: the store of b_dh[i][j] to dh0[i_nh, k, v].
BwdStoreDh0(a, m, r, i_v, i_k, i_nh) ==
    LET cells == {<<i, j>> \in (0 .. a.BK - 1) \X (0 .. a.BV - 1) :
                     i_k * a.BK + i < a.K /\ i_v * a.BV + j < a.V}
        p_dh0(c) == i_nh * a.K * a.V + (i_k * a.BK + c[1]) * a.V
                        + (i_v * a.BV + c[2])
    IN  [x \in DOMAIN m.dh0.data \cup {p_dh0(c) : c \in cells} |->
            IF \E c \in cells : x = p_dh0(c)
            THEN LET c == CHOOSE c \in cells : x = p_dh0(c)
                 IN  r.b_dh[c[1]][c[2]]
            ELSE m.dh0.data[x]]

\* A kernel whose second pass starts from the zero state.
BwdPassBEntry_ZeroState(a, r, i_v, i_k, i_nh) ==
    [r EXCEPT !.pc = "passB",
              !.t = 0,
              !.b_h = [i \in 0 .. a.BK - 1 |-> [j \in 0 .. a.BV - 1 |-> 0]]]

\* Lines 206-223: the state b_h of the second pass, seeded from h0.
BwdPassBEntry(a, r, i_v, i_k, i_nh) ==
    LET mask_k == [i \in 0 .. a.BK - 1 |-> i_k * a.BK + i < a.K]
        mask_v == [j \in 0 .. a.BV - 1 |-> i_v * a.BV + j < a.V]
        USE_INITIAL_STATE == ~a.h0.none
        p_h0 == [i \in 0 .. a.BK - 1 |-> [j \in 0 .. a.BV - 1 |->
                    i_nh * a.K * a.V + (i_k * a.BK + i) * a.V + (i_v * a.BV + j)]]
    IN  [r EXCEPT !.pc = "passB",
                  !.t = 0,
                  !.b_h = [i \in 0 .. a.BK - 1 |-> [j \in 0 .. a.BV - 1 |->
                              IF USE_INITIAL_STATE /\ mask_k[i] /\ mask_v[j]
                              THEN a.h0.data[p_h0[i][j]] ELSE 0]]]

\* Lines 225-251: iteration r.t of the forward-time loop of the second pass;
\* the registers and the buffers dk, dq after it.
BwdPassBIter(a, m, r, i_v, i_k, i_nh) ==
    LET i_h == i_nh % a.H
        lanesK == 0 .. a.BK - 1
        lanesV == 0 .. a.BV - 1
        mask_k == [i \in lanesK |-> i_k * a.BK + i < a.K]
        mask_v == [j \in lanesV |-> i_v * a.BV + j < a.V]
        p_k == (r.bos * a.H + i_h) * a.K + i_k * a.BK + r.t * a.H * a.K
        p_v == (r.bos * a.H + i_h) * a.V + i_v * a.BV + r.t * a.H * a.V
        p_beta == IF a.IS_BETA_HEADWISE
                  THEN (r.bos * a.H + i_h) * a.V + i_v * a.BV + r.t * a.H * a.V
                  ELSE r.bos * a.H + i_h + r.t * a.H
        p_do == (r.bos * a.H + i_h) * a.V + i_v * a.BV + r.t * a.H * a.V
        p_dq == ((i_v * r.all + r.bos) * a.H + i_h) * a.K + i_k * a.BK
                   + r.t * a.H * a.K
        p_dk == ((i_v * r.all + r.bos) * a.H + i_h) * a.K + i_k * a.BK
                   + r.t * a.H * a.K
        p_dv == ((i_k * r.all + r.bos) * a.H + i_h) * a.V + i_v * a.BV
                   + r.t * a.H * a.V
        b_dk0 == [i \in lanesK |-> IF mask_k[i] THEN m.dk.data[p_dk + i] ELSE 0]
        b_dv == [j \in lanesV |-> IF mask_v[j] THEN m.dv.data[p_dv + j] ELSE 0]
        b_dk == [i \in lanesK |->
                   b_dk0[i] - SumLanes([j \in lanesV |-> b_dv[j] * r.b_h[i][j]],
                                       a.BV)]
        b_k == [i \in lanesK |-> IF mask_k[i] THEN a.k.data[p_k + i] ELSE 0]
        b_v0 == [j \in lanesV |-> IF mask_v[j] THEN a.v.data[p_v + j] ELSE 0]
        b_do == [j \in lanesV |-> IF mask_v[j] THEN a.do.data[p_do + j] ELSE 0]
        b_beta == [j \in lanesV |->
                   IF a.IS_BETA_HEADWISE
                   THEN (IF mask_v[j] THEN a.beta.data[p_beta + j] ELSE 0)
                   ELSE a.beta.data[p_beta]]
        b_v == [j \in lanesV |-> b_v0[j] * b_beta[j]]
        b_h == [i \in lanesK |-> [j \in lanesV |->
                   r.b_h[i][j] + b_k[i] * b_v[j]]]
        d_q == [i \in lanesK |->
                   Scaled(a, SumLanes([j \in lanesV |-> b_h[i][j] * b_do[j]],
                                      a.BV))]
        keepK == {i \in lanesK : mask_k[i]}
    IN  [regs |-> [r EXCEPT !.b_h = b_h, !.t = r.t + 1],
         dk |-> Store(m.dk.data, p_dk, keepK, b_dk),
         dq |-> Store(m.dq.data, p_dq, keepK, d_q)]

---------------------------------------------------------------------------
(* Host functions *)

Grid(a) == (0 .. a.NV - 1) \X (0 .. a.NK - 1) \X (0 .. a.N * a.H - 1)

\* The tensors a kernel stores to, and the tensors of the caller it is handed.
Buffers == {"o", "u", "ht", "dq", "dk", "dv", "db", "dh0"}

CallerTensors == {"q", "k", "v", "beta", "h0", "do", "dht"}

\* No buffer is allocated. at[b] names the storage buffer b occupies: its
\* own ("new") when it is freshly allocated, or the caller's tensor it shares.
NoMem ==
    [o |-> None, u |-> None, ht |-> None, dq |-> None, dk |-> None,
     dv |-> None, db |-> None, dh0 |-> None,
     at |-> [b \in Buffers |-> "none"],
     wr |-> <<>>]

\* The buffers of m with nothing stored: a store applied to them shows the
\* elements it writes.
Blank(m) ==
    [b \in DOMAIN m |->
        IF b \in Buffers /\ ~m[b].none THEN [m[b] EXCEPT !.data = <<>>]
        ELSE m[b]]

\* The record of stores wr after program g has stored to the elements addrs
\* of buffer b: wr[<<b, x>>] lists the programs that stored to element x, one
\* entry per store.
Noted(wr, b, addrs, g) ==
    [x \in DOMAIN wr \cup ({b} \X addrs) |->
        IF x[1] = b /\ x[2] \in addrs
        THEN Append(IF x \in DOMAIN wr THEN wr[x] ELSE <<>>, g)
        ELSE wr[x]]

\* What the stores so far have made of the caller's tensor x (t): the
\* elements stored to a buffer that occupies the storage of x replace its own.
Overlay(t, m, x) ==
    LET sharing == {b \in Buffers : m.at[b] = x}
    IN  IF sharing = {} \/ t.none THEN t
        ELSE LET d == m[CHOOSE b \in sharing : TRUE].data
             IN  [t EXCEPT !.data = [i \in DOMAIN @ |->
                                       IF i \in DOMAIN d THEN d[i] ELSE @[i]]]

\* The kernel's pointer arguments after its stores m.
WriteThrough(a, m) ==
    [a EXCEPT !.q = Overlay(@, m, "q"), !.k = Overlay(@, m, "k"),
              !.v = Overlay(@, m, "v"), !.beta = Overlay(@, m, "beta"),
              !.h0 = Overlay(@, m, "h0"), !.do = Overlay(@, m, "do"),
              !.dht = Overlay(@, m, "dht")]

\* fused_recurrent_delta_rule_fwd, lines 264-298: the launch arguments.
FwdArgs(inp) ==
    LET B == inp.k.shape[1]
        T == inp.k.shape[2]
        H == inp.k.shape[3]
        K == inp.k.shape[4]
        V == inp.v.shape[Len(inp.v.shape)]
        N == IF inp.cu_seqlens.none THEN B ELSE inp.cu_seqlens.shape[1] - 1
        BK == next_power_of_2(K)
        BV == Min(next_power_of_2(V), FwdBVCap)
    IN  [q |-> inp.q, k |-> inp.k, v |-> inp.v, beta |-> inp.beta,
         h0 |-> inp.initial_state, cu_seqlens |-> inp.cu_seqlens,
         scale |-> inp.scale, scale_den |-> inp.scale_den,
         do |-> None, dht |-> None,
         T |-> T, B |-> B, H |-> H, K |-> K, V |-> V, N |-> N,
         BK |-> BK, BV |-> BV, NK |-> cdiv(K, BK), NV |-> cdiv(V, BV),
         IS_BETA_HEADWISE |-> Len(inp.beta.shape) = Len(inp.v.shape)]

\* A forward that writes the final state into the caller's initial_state.
FwdMem_InPlace(inp, a) ==
    [NoMem EXCEPT
        !.o = Empty(<<a.NK>> \o inp.v.shape),
        !.ht = IF inp.output_final_state
               THEN Empty(<<a.N, a.H, a.K, a.V>>) ELSE None,
        !.u = Empty(inp.v.shape),
        !.at = [@ EXCEPT !["o"] = "new", !["u"] = "new",
                         !["ht"] = IF ~inp.output_final_state THEN "none"
                                   ELSE IF inp.initial_state.none THEN "new"
                                   ELSE "h0"]]

\* fused_recurrent_delta_rule_fwd, lines 272-279: the buffers it allocates
\* (new_empty, empty_like), handed to the kernel at lines 280-298.
FwdMem(inp, a) ==
    [NoMem EXCEPT
        !.o = Empty(<<a.NK>> \o inp.v.shape),
        !.ht = IF inp.output_final_state
               THEN Empty(<<a.N, a.H, a.K, a.V>>) ELSE None,
        !.u = Empty(inp.v.shape),
        !.at = [@ EXCEPT !["o"] = "new", !["u"] = "new",
                         !["ht"] = IF inp.output_final_state
                                   THEN "new" ELSE "none"]]

\* o.squeeze(0), line 302: the leading dimension is dropped when it is 1.
Squeeze0(t) == IF Head(t.shape) = 1 THEN [t EXCEPT !.shape = Tail(t.shape)] ELSE t

\* A forward that saves the raw values for backward.
SaveForBackward_RawV(inp, a, m) ==
    [q |-> inp.q, k |-> inp.k, u |-> inp.v, beta |-> inp.beta,
     initial_state |-> inp.initial_state,
     requires_grad |-> inp.requires_grad,
     scale |-> inp.scale, scale_den |-> inp.scale_den,
     cu_seqlens |-> inp.cu_seqlens]

\* FusedRecurrentFunction.forward, lines 409-412 (use_qk_l2norm_in_kernel
\* False): u is saved in the place of v.
SaveForBackward(inp, a, m) ==
    [q |-> inp.q, k |-> inp.k, u |-> m.u, beta |-> inp.beta,
     initial_state |-> inp.initial_state,
     requires_grad |-> inp.requires_grad,
     scale |-> inp.scale, scale_den |-> inp.scale_den,
     cu_seqlens |-> inp.cu_seqlens]

\* fused_recurrent_delta_rule_bwd, lines 317-364: the launch arguments;
\* FusedRecurrentFunction.backward, line 418, passes the saved u as v.
BwdArgs(c, do, dht) ==
    LET q == c.q
        k == c.k
        v == c.u
        B == k.shape[1]
        T == k.shape[2]
        H == k.shape[3]
        K == k.shape[4]
        V == v.shape[Len(v.shape)]
        N == IF c.cu_seqlens.none THEN B ELSE c.cu_seqlens.shape[1] - 1
        BK == next_power_of_2(K)
        BV == Min(next_power_of_2(V), BwdBVCap)
    IN  [q |-> q, k |-> k, v |-> v, beta |-> c.beta,
         h0 |-> c.initial_state, cu_seqlens |-> c.cu_seqlens,
         scale |-> c.scale, scale_den |-> c.scale_den,
         do |-> do, dht |-> dht,
         T |-> T, B |-> B, H |-> H, K |-> K, V |-> V, N |-> N,
         BK |-> BK, BV |-> BV, NK |-> cdiv(K, BK), NV |-> cdiv(V, BV),
         IS_BETA_HEADWISE |-> Len(c.beta.shape) = Len(v.shape)]

\* fused_recurrent_delta_rule_bwd, lines 327-339: the buffers it allocates.
BwdMem(c, a) ==
    [NoMem EXCEPT
        !.dq = Empty(<<a.NV>> \o a.q.shape),
        !.dk = Empty(<<a.NV>> \o a.k.shape),
        !.dv = Empty(<<a.NK>> \o a.v.shape),
        !.db = IF a.IS_BETA_HEADWISE
               THEN Empty(<<a.NV, a.NK, a.B, a.T, a.H, a.V>>)
               ELSE Empty(<<a.NV, a.B, a.T, a.H>>),
        !.dh0 = IF ~c.initial_state.none /\ c.requires_grad
                THEN Empty(c.initial_state.shape) ELSE None,
        !.at = [@ EXCEPT !["dq"] = "new", !["dk"] = "new", !["dv"] = "new",
                         !["db"] = "new",
                         !["dh0"] = IF ~c.initial_state.none /\ c.requires_grad
                                    THEN "new" ELSE "none"]]

\* x.sum(0): element i of the result is the sum over the leading dimension;
\* it is determined only where every summand has been stored.
Sum0(t) ==
    LET n == Head(t.shape)
        rest == Tail(t.shape)
        sz == Numel(rest)
    IN  Tensor(rest,
               [i \in {x \in Idx(rest) :
                          \A b \in 0 .. n - 1 : b * sz + x \in DOMAIN t.data} |->
                   SumLanes([b \in 0 .. n - 1 |-> t.data[b * sz + i]], n)])

\* fused_recurrent_delta_rule_bwd, lines 368-373.
BwdResult(a, m) ==
    [kind |-> "bwd",
     dq |-> Sum0(m.dq),
     dk |-> Sum0(m.dk),
     dv |-> Sum0(m.dv),
     db |-> IF a.IS_BETA_HEADWISE THEN Sum0(Sum0(m.db)) ELSE Sum0(m.db),
     dh0 |-> m.dh0]

FwdResult(m) ==
    [kind |-> "fwd", o |-> Squeeze0(m.o), u |-> m.u, final_state |-> m.ht]

---------------------------------------------------------------------------
(* fused_recurrent_delta_rule: the checks and defaults of lines 507-523 *)

\* A public entry point that does not look at the batch size of packed inputs.
ApiCheck_NoBatchCheck(inp) ==
    IF /\ ~inp.cu_seqlens.none
       /\ ~inp.initial_state.none
       /\ inp.initial_state.shape[1] # inp.cu_seqlens.shape[1] - 1
    THEN "ValueError"
    ELSE IF ~inp.scale_none /\ ~(inp.scale > 0) THEN "AssertionError"
    ELSE "ok"

\* Lines 507-521: what the entry point raises, "ok" when it raises nothing.
\* The scale is the fraction scale / scale_den with scale_den > 0.
ApiCheck(inp) ==
    IF ~inp.cu_seqlens.none /\ inp.q.shape[1] # 1 THEN "ValueError"
    ELSE IF /\ ~inp.cu_seqlens.none
            /\ ~inp.initial_state.none
            /\ inp.initial_state.shape[1] # inp.cu_seqlens.shape[1] - 1
    THEN "ValueError"
    ELSE IF ~inp.scale_none /\ ~(inp.scale > 0) THEN "AssertionError"
    ELSE "ok"

\* A default scale of one.
DefaultScale_One(k) == [num |-> 1, den |-> 1]

\* Line 519, k.shape[-1] ** -0.5, as the fraction 1 / sqrt(K); the callers
\* that omit the scale use head dimensions that are perfect squares.
DefaultScale(k) ==
    LET K == k.shape[Len(k.shape)]
    IN  [num |-> 1, den |-> CHOOSE r \in 1 .. K : r * r = K]

\* A default beta of zeros.
DefaultBeta_Zeros(q) ==
    LET shape == SubSeq(q.shape, 1, Len(q.shape) - 1)
    IN  Tensor(shape, [i \in Idx(shape) |-> 0])

\* Line 523, torch.ones_like(q[..., 0]).
DefaultBeta(q) ==
    LET shape == SubSeq(q.shape, 1, Len(q.shape) - 1)
    IN  Tensor(shape, [i \in Idx(shape) |-> 1])

\* Lines 518-523: the arguments handed to FusedRecurrentFunction.apply.
ApiDefaults(inp) ==
    [inp EXCEPT
        !.scale = IF inp.scale_none THEN DefaultScale(inp.k).num ELSE @,
        !.scale_den = IF inp.scale_none THEN DefaultScale(inp.k).den ELSE @,
        !.scale_none = FALSE,
        !.beta = IF inp.beta.none THEN DefaultBeta(inp.q) ELSE @]

---------------------------------------------------------------------------
(* The callers: each scenario is a script of forward / backward calls *)

Shapes ==
    {s \in (1 .. MaxN) \X (1 .. MaxH) \X (0 .. MaxT) \X (1 .. MaxK) \X (1 .. MaxV) :
        s[1] * s[2] * s[3] * s[4] * s[5] <= MaxElems}

LensOf(n) == [1 .. n -> 1 .. MaxT]

FinalKinds == {<<FALSE, FALSE>>, <<TRUE, FALSE>>, <<TRUE, TRUE>>}

\* The scale the caller passes with the inputs of seed `seed`: 1 .. MaxScale.
SeedScale(seed) == 1 + ((seed \div 2) % MaxScale)

Case(scn, varlen, B, T, lens, H, K, V, headwise, h0kind, fk, seed, betaKind,
     split) ==
    [scn |-> scn, varlen |-> varlen, B |-> B, T |-> T, lens |-> lens,
     H |-> H, K |-> K, V |-> V, headwise |-> headwise, h0kind |-> h0kind,
     ofs |-> fk[1], dht |-> fk[2], seed |-> seed, scale |-> SeedScale(seed),
     betaKind |-> betaKind, split |-> split]

FixedTrainCases ==
    {Case("train", FALSE, s[1], s[3], <<>>, s[2], s[4], s[5], hw, h0, fk, sd,
          "gen", 0) :
        s \in Shapes, hw \in BOOLEAN, h0 \in {"none", "nograd", "grad"},
        fk \in FinalKinds, sd \in 0 .. MaxSeed}

VarlenShapes ==
    {x \in (UNION {LensOf(n) : n \in 1 .. MaxN}) \X (1 .. MaxH) \X (1 .. MaxK)
               \X (1 .. MaxV) :
        SumSeq(x[1]) * x[2] * x[3] * x[4] <= MaxElems}

VarlenTrainCases ==
    {Case("train", TRUE, 1, 0, x[1], x[2], x[3], x[4], hw, h0, fk, sd, "gen",
          0) :
        x \in VarlenShapes, hw \in BOOLEAN, h0 \in {"none", "nograd", "grad"},
        fk \in FinalKinds, sd \in 0 .. MaxSeed}

TrainCases == FixedTrainCases \cup VarlenTrainCases

\* The elements of one <<batch, time>> position of x.
Inner(x) == Numel(SubSeq(x.shape, 3, Len(x.shape)))

\* x[:, lo:hi] made contiguous (input_guard).
SliceT(x, lo, hi) ==
    LET shape == [x.shape EXCEPT ![2] = hi - lo]
        row == (hi - lo) * Inner(x)
    IN  Tensor(shape, [a \in Idx(shape) |->
            x.data[((a \div row) * x.shape[2] + lo + (a % row) \div Inner(x))
                       * Inner(x) + (a % Inner(x))]])

\* The sequences packed in x (batch size 1, offsets cu) as a batch of
\* Len(lens) rows of length Tmax, zero beyond each sequence's length.
PadT(x, cu, lens, Tmax) ==
    LET shape == [x.shape EXCEPT ![1] = Len(lens), ![2] = Tmax]
        row == Tmax * Inner(x)
    IN  Tensor(shape, [a \in Idx(shape) |->
            LET n == a \div row
                t == (a % row) \div Inner(x)
            IN  IF t < lens[n + 1]
                THEN x.data[(cu.data[n] + t) * Inner(x) + (a % Inner(x))]
                ELSE 0])

\* beta[..., None].expand(..., V) made contiguous.
ExpandV(x, V) ==
    Tensor(x.shape \o <<V>>, [a \in Idx(x.shape \o <<V>>) |-> x.data[a \div V]])

LongestLen(lens) == CHOOSE m \in 0 .. MaxT :
    /\ \A i \in DOMAIN lens : lens[i] <= m
    /\ \E i \in DOMAIN lens : lens[i] = m

\* The padded fixed-length batch of the packed arguments inp.
PadInputs(inp, lens) ==
    LET M == LongestLen(lens)
    IN  [inp EXCEPT !.q = PadT(@, inp.cu_seqlens, lens, M),
                    !.k = PadT(@, inp.cu_seqlens, lens, M),
                    !.v = PadT(@, inp.cu_seqlens, lens, M),
                    !.beta = PadT(@, inp.cu_seqlens, lens, M),
                    !.cu_seqlens = None]

\* Carry-over: the whole sequence, then its first `split` timesteps, then
\* the rest started from the state the second call returned.
CarryCases ==
    {c \in {Case("carry", FALSE, s[1], s[3], <<>>, s[2], s[4], s[5], hw, h0,
                 <<TRUE, FALSE>>, sd, "gen", sp) :
               s \in Shapes, hw \in BOOLEAN, h0 \in {"none", "nograd"},
               sd \in 1 .. MaxSeed, sp \in 0 .. MaxT} :
        c.T >= 1 /\ c.split <= c.T}

\* Packed against padded: forward and backward on the packed sequences,
\* then forward and backward on the same sequences as a padded batch.
PackedCases ==
    {Case("packed", TRUE, 1, 0, x[1], x[2], x[3], x[4], hw, h0, fk, sd, "gen",
          0) :
        x \in VarlenShapes, hw \in BOOLEAN, h0 \in {"none", "nograd", "grad"},
        fk \in {<<TRUE, FALSE>>, <<TRUE, TRUE>>}, sd \in 1 .. MaxSeed}

\* Scalar beta, then the vector beta whose components all equal it.
BetaEqCases ==
    {Case("betaeq", c.varlen, c.B, c.T, c.lens, c.H, c.K, c.V, FALSE, c.h0kind,
          <<c.ofs, FALSE>>, c.seed, "gen", 0) : c \in TrainCases}

\* Forward with beta zero at every timestep.
ZeroBetaCases ==
    {Case("zerobeta", c.varlen, c.B, c.T, c.lens, c.H, c.K, c.V, c.headwise,
          c.h0kind, <<c.ofs, FALSE>>, c.seed, "zero", 0) : c \in TrainCases}

\* Value widths that need more than one value block in forward.
WideFwdV == {FwdBVCap + d : d \in 1 .. MaxV - 1}

\* The same forward call made twice.
TwiceCases ==
    {Case("twice", c.varlen, c.B, c.T, c.lens, c.H, c.K, c.V, c.headwise,
          c.h0kind, <<TRUE, FALSE>>, c.seed, "gen", 0) :
        c \in {x \in TrainCases : x.seed >= 1 /\ x.h0kind # "grad"}}
      \cup
    {Case("twice", FALSE, 1, T, <<>>, 1, 1, V, hw, h0, <<TRUE, FALSE>>, sd,
          "gen", 0) :
        T \in 1 .. MaxT - 1, V \in WideFwdV, hw \in BOOLEAN,
        h0 \in {"none", "nograd"}, sd \in 1 .. MaxSeed}

\* Two training rounds on batches that agree on sequence `keep` (its tokens,
\* its initial state, its output gradients) and differ on every other
\* sequence.
IndepCases ==
    {[scn |-> "indep", varlen |-> c.varlen, B |-> c.B, T |-> c.T,
      lens |-> c.lens, H |-> c.H, K |-> c.K, V |-> c.V,
      headwise |-> c.headwise, h0kind |-> c.h0kind, ofs |-> c.ofs,
      dht |-> c.dht, seed |-> c.seed, scale |-> c.scale,
      betaKind |-> c.betaKind, split |-> c.split, keep |-> n] :
        c \in {x \in TrainCases :
                  /\ x.seed = 1 /\ TcN(x) >= 2 /\ TcT(x) >= 2
                  /\ x.ofs = (x.h0kind # "none") /\ x.dht = x.ofs},
        n \in 0 .. 1}

\* The sequence that owns token position p (batch-major) of case c.
SeqOfToken(c, p) ==
    IF c.varlen
    THEN CHOOSE n \in 0 .. Len(c.lens) - 1 :
             /\ SumSeq(SubSeq(c.lens, 1, n)) <= p
             /\ p < SumSeq(SubSeq(c.lens, 1, n + 1))
    ELSE p \div c.T

\* x on the tokens of sequence c.keep, y on the tokens of the others.
MixTokens(c, x, y) ==
    Tensor(x.shape, [a \in Idx(x.shape) |->
        IF SeqOfToken(c, a \div Inner(x)) = c.keep
        THEN x.data[a] ELSE y.data[a]])

\* x on the row of sequence c.keep, y on the rows of the others.
MixRows(c, x, y) ==
    IF x.none THEN x
    ELSE Tensor(x.shape, [a \in Idx(x.shape) |->
             IF a \div Numel(Tail(x.shape)) = c.keep
             THEN x.data[a] ELSE y.data[a]])

\* The inputs of the second round of an "indep" case.
IndepInputs(c) ==
    LET inp == TcInputs(c)
        oth == TcInputs([c EXCEPT !.seed = c.seed + 1])
    IN  [inp EXCEPT !.q = MixTokens(c, @, oth.q),
                    !.k = MixTokens(c, @, oth.k),
                    !.v = MixTokens(c, @, oth.v),
                    !.beta = MixTokens(c, @, oth.beta),
                    !.initial_state = MixRows(c, @, oth.initial_state)]

\* Value widths that need more than one value block in backward.
WideBwdV == {BwdBVCap + d : d \in 1 .. MaxV - 1}

\* Training on one short sequence whose values span several value blocks of
\* backward (and more of forward).
WideCases ==
    {Case("train", FALSE, 1, T, <<>>, 1, 1, V, hw, h0, fk, sd, "gen", 0) :
        T \in 1 .. MaxT - 2, V \in WideBwdV, hw \in BOOLEAN,
        h0 \in {"none", "nograd", "grad"}, fk \in FinalKinds,
        sd \in 1 .. MaxSeed}

\* A forward call that does not ask for the final state, followed by a direct
\* call of FusedRecurrentFunction.backward that passes a gradient for it.
StrayCases ==
    {Case("stray", c.varlen, c.B, c.T, c.lens, c.H, c.K, c.V, c.headwise,
          c.h0kind, <<FALSE, TRUE>>, c.seed, "gen", 0) :
        c \in {x \in TrainCases : x.seed = 1 /\ x.ofs /\ ~x.dht}}

\* Head dimensions whose square root is a whole number.
SquareKs == {r * r : r \in 1 .. MaxK}

Root(n) == CHOOSE r \in 1 .. n : r * r = n

\* Forward calls that leave arguments out, or pass arguments the entry point
\* may object to. quirk names what is unusual about the call and rows is the
\* leading dimension it concerns.
\*   plain     nothing
\*   batch     packed inputs (cu_seqlens) in a batch of rows > 1
\*   h0rows    an initial state with rows # N leading entries
\*   noscale   scale omitted (q holds multiples of sqrt(K))
\*   badscale  a scale of zero or below
\*   cu_first  cu_seqlens[0] = 1
\*   cu_last   cu_seqlens[N] = T - 1
\*   cu_flat   cu_seqlens = [0, T, ..., T]
\*   nobeta    beta omitted; the second call passes beta = 1 for every token
ApiCase(c, quirk, rows) ==
    [scn |-> "api", varlen |-> c.varlen, B |-> c.B, T |-> c.T, lens |-> c.lens,
     H |-> c.H, K |-> c.K, V |-> c.V, headwise |-> c.headwise,
     h0kind |-> c.h0kind, ofs |-> c.ofs, dht |-> c.dht, seed |-> c.seed,
     scale |-> c.scale, betaKind |-> c.betaKind, split |-> c.split,
     quirk |-> quirk, rows |-> rows]

ApiBases ==
    {c \in TrainCases :
        c.seed >= 1 /\ c.h0kind # "grad" /\ c.ofs /\ ~c.dht /\ TcT(c) >= 1}

SquareBases ==
    {Case("train", FALSE, 1, T, <<>>, 1, K, 1, hw, h0, <<TRUE, FALSE>>, sd,
          "gen", 0) :
        T \in 1 .. MaxT - 1, K \in SquareKs, hw \in BOOLEAN,
        h0 \in {"none", "nograd"}, sd \in 1 .. MaxSeed}

ApiCases ==
    {ApiCase(c, "plain", 0) : c \in {x \in ApiBases : x.seed = 1}}
      \cup
    {ApiCase(c, "batch", b) :
        c \in {x \in ApiBases : x.varlen}, b \in 2 .. MaxN}
      \cup
    {ApiCase(p[1], "h0rows", p[2]) :
        p \in {x \in ApiBases \X (1 .. MaxN + 1) :
                 /\ x[1].h0kind = "nograd"
                 /\ x[2] # TcN(x[1])
                 /\ x[1].varlen \/ x[2] > TcN(x[1])}}
      \cup
    {ApiCase(c, "noscale", 0) : c \in SquareBases}
      \cup
    {[ApiCase(c, "badscale", 0) EXCEPT !.scale = z] :
        c \in {x \in ApiBases : x.seed = 1}, z \in -1 .. 0}
      \cup
    {ApiCase(c, qk, 0) :
        c \in {x \in ApiBases : x.varlen}, qk \in {"cu_first", "cu_last"}}
      \cup
    {ApiCase(c, "cu_flat", 0) :
        c \in {x \in ApiBases : x.varlen /\ Len(x.lens) >= 2}}
      \cup
    {ApiCase(c, "nobeta", 0) : c \in {x \in ApiBases : ~x.headwise}}

\* The arguments of the first call of an "api" case.
ApiInputs(c) ==
    LET inp == TcInputs(c)
        rows(t, tag) == GenTensor(c.seed, tag, [t.shape EXCEPT ![1] = c.rows])
        N == TcN(c)
        T == TcT(c)
    IN  CASE c.quirk \in {"plain", "badscale"} -> inp
          [] c.quirk = "batch" ->
                [inp EXCEPT !.q = rows(@, 1), !.k = rows(@, 2),
                            !.v = rows(@, 3), !.beta = rows(@, 4)]
          [] c.quirk = "h0rows" ->
                [inp EXCEPT !.initial_state = rows(@, 5)]
          [] c.quirk = "noscale" ->
                [inp EXCEPT
                    !.scale_none = TRUE,
                    !.q = Tensor(@.shape, [a \in Idx(@.shape) |->
                                               @.data[a] * Root(c.K)])]
          [] c.quirk = "cu_first" ->
                [inp EXCEPT !.cu_seqlens.data[0] = 1]
          [] c.quirk = "cu_last" ->
                [inp EXCEPT !.cu_seqlens.data[N] = T - 1]
          [] c.quirk = "cu_flat" ->
                [inp EXCEPT !.cu_seqlens.data =
                                [i \in 0 .. N |-> IF i = 0 THEN 0 ELSE T]]
          [] c.quirk = "nobeta" -> [inp EXCEPT !.beta = None]

Script(c) ==
    CASE c.scn \in {"train", "stray"} -> <<"fwd", "bwd">>
      [] c.scn = "twice" -> <<"fwd", "fwd">>
      [] c.scn = "carry" -> <<"fwd", "fwd", "fwd">>
      [] c.scn \in {"packed", "indep"} -> <<"fwd", "bwd", "fwd", "bwd">>
      [] c.scn = "betaeq" -> <<"fwd", "fwd">>
      [] c.scn = "zerobeta" -> <<"fwd">>
      [] c.scn = "api" ->
            IF c.quirk = "nobeta" THEN <<"fwd", "fwd">> ELSE <<"fwd">>

\* The arguments of forward call i of the scenario.
FwdInputs(c, i, lg) ==
    CASE c.scn \in {"train", "zerobeta", "twice", "stray"} -> TcInputs(c)
      [] c.scn = "carry" ->
            LET inp == TcInputs(c)
                cut(lo, hi, h0) ==
                    [inp EXCEPT !.q = SliceT(@, lo, hi), !.k = SliceT(@, lo, hi),
                                !.v = SliceT(@, lo, hi),
                                !.beta = SliceT(@, lo, hi),
                                !.initial_state = h0]
            IN  IF i = 1 THEN inp
                ELSE IF i = 2 THEN cut(0, c.split, inp.initial_state)
                ELSE cut(c.split, c.T, lg[2].final_state)
      [] c.scn = "packed" ->
            IF i = 1 THEN TcInputs(c) ELSE PadInputs(TcInputs(c), c.lens)
      [] c.scn = "betaeq" ->
            IF i = 1 THEN TcInputs(c)
            ELSE [TcInputs(c) EXCEPT !.beta = ExpandV(@, c.V)]
      [] c.scn = "indep" ->
            IF i = 1 THEN TcInputs(c) ELSE IndepInputs(c)
      [] c.scn = "api" ->
            IF i = 1 THEN ApiInputs(c)
            ELSE [TcInputs(c) EXCEPT
                    !.beta = Tensor(<<TcB(c), TcT(c), c.H>>,
                                    [a \in Idx(<<TcB(c), TcT(c), c.H>>) |-> 1])]

\* The output gradient: all ones (the loss sum(output)) for even seeds.
TcDo(c) ==
    LET shape == <<TcB(c), TcT(c), c.H, c.V>>
    IN  IF c.seed % 2 = 0
        THEN Tensor(shape, [i \in Idx(shape) |-> 1])
        ELSE GenTensor(c.seed, 6, shape)

TcDht(c) ==
    IF c.dht THEN GenTensor(c.seed, 7, <<TcN(c), c.H, c.K, c.V>>) ELSE None

\* The gradients autograd hands to backward call i of the scenario.
BwdGrads(c, i, lg) ==
    CASE c.scn \in {"train", "stray"} -> [do |-> TcDo(c), dht |-> TcDht(c)]
      [] c.scn = "indep" ->
            IF i = 2 THEN [do |-> TcDo(c), dht |-> TcDht(c)]
            ELSE [do |-> MixTokens(c, TcDo(c), TcDo([c EXCEPT !.seed = c.seed + 1])),
                  dht |-> MixRows(c, TcDht(c),
                                  TcDht([c EXCEPT !.seed = c.seed + 1]))]
      [] c.scn = "packed" ->
            IF i = 2 THEN [do |-> TcDo(c), dht |-> TcDht(c)]
            ELSE [do |-> PadT(TcDo(c), CuSeqlens(c.lens), c.lens, LongestLen(c.lens)),
                  dht |-> TcDht(c)]

---------------------------------------------------------------------------
(* The state machine *)

NoArgs == [N |-> 0, H |-> 0, NV |-> 0, NK |-> 0]

NoCtx == [none |-> TRUE]

Start(cases) ==
    /\ tc \in cases
    /\ pc = "call"
    /\ callIdx = 1
    /\ args = NoArgs
    /\ mem = NoMem
    /\ units = <<>>
    /\ ctx = NoCtx
    /\ log = <<>>

\* fused_recurrent_delta_rule (nothing raised, defaults filled in) ->
\* FusedRecurrentFunction.forward -> fused_recurrent_delta_rule_fwd up to the
\* kernel launch.
CallForward ==
    /\ pc = "call"
    /\ Script(tc)[callIdx] = "fwd"
    /\ ApiCheck(FwdInputs(tc, callIdx, log)) = "ok"
    /\ LET inp == ApiDefaults(FwdInputs(tc, callIdx, log))
           a == FwdArgs(inp)
       IN  /\ args' = a
           /\ mem' = FwdMem(inp, a)
           /\ units' = [g \in Grid(a) |-> FwdKernelEntry(a, g[1], g[2], g[3])]
           /\ ctx' = [none |-> FALSE, inp |-> inp]
    /\ pc' = "fwd"
    /\ UNCHANGED <<tc, callIdx, log>>

\* fused_recurrent_delta_rule raises at lines 509-517 or 521: nothing has
\* been allocated and no kernel has been launched.
RaiseForward ==
    /\ pc = "call"
    /\ Script(tc)[callIdx] = "fwd"
    /\ ApiCheck(FwdInputs(tc, callIdx, log)) # "ok"
    /\ log' = Append(log, [error |-> ApiCheck(FwdInputs(tc, callIdx, log))])
    /\ pc' = "error"
    /\ UNCHANGED <<tc, callIdx, args, mem, units, ctx>>

\* One iteration of the time loop of one program of the forward grid.
FwdStep(g) ==
    /\ pc = "fwd"
    /\ units[g].pc = "loop"
    /\ units[g].t < units[g].T
    /\ LET n == FwdKernelIter(args, mem, units[g], g[1], g[2], g[3])
           w == FwdKernelIter(args, Blank(mem), units[g], g[1], g[2], g[3])
       IN  /\ units' = [units EXCEPT ![g] = n.regs]
           /\ mem' = [mem EXCEPT
                        !.u.data = n.u, !.o.data = n.o,
                        !.wr = Noted(Noted(@, "u", DOMAIN w.u, g),
                                     "o", DOMAIN w.o, g)]
    /\ args' = WriteThrough(args, mem')
    /\ UNCHANGED <<tc, pc, callIdx, ctx, log>>

\* The end of one program of the forward grid.
FwdFinal(g) ==
    /\ pc = "fwd"
    /\ units[g].pc = "loop"
    /\ units[g].t = units[g].T
    /\ units' = [units EXCEPT ![g].pc = "done"]
    /\ mem' = IF ~mem.ht.none
              THEN [mem EXCEPT
                        !.ht.data =
                            FwdKernelFinal(args, mem, units[g], g[1], g[2], g[3]),
                        !.wr = Noted(@, "ht",
                                     DOMAIN FwdKernelFinal(args, Blank(mem),
                                                units[g], g[1], g[2], g[3]),
                                     g)]
              ELSE mem
    /\ args' = WriteThrough(args, mem')
    /\ UNCHANGED <<tc, pc, callIdx, ctx, log>>

Advance ==
    /\ callIdx' = callIdx + 1
    /\ pc' = IF callIdx = Len(Script(tc)) THEN "done" ELSE "call"

\* The kernel has finished: lines 302-303 and 409-413.
ReturnForward ==
    /\ pc = "fwd"
    /\ \A g \in DOMAIN units : units[g].pc = "done"
    /\ ctx' = SaveForBackward(ctx.inp, args, mem)
    /\ log' = Append(log, FwdResult(mem))
    /\ Advance
    /\ UNCHANGED <<tc, args, mem, units>>

\* FusedRecurrentFunction.backward -> fused_recurrent_delta_rule_bwd up to
\* the kernel launch.
CallBackward ==
    /\ pc = "call"
    /\ Script(tc)[callIdx] = "bwd"
    /\ LET g == BwdGrads(tc, callIdx, log)
           a == BwdArgs(ctx, g.do, g.dht)
       IN  /\ args' = a
           /\ mem' = BwdMem(ctx, a)
           /\ units' = [x \in Grid(a) |-> BwdKernelEntry(a, x[1], x[2], x[3])]
    /\ pc' = "bwd"
    /\ UNCHANGED <<tc, callIdx, ctx, log>>

\* One iteration of the reverse-time loop of one program.
BwdStepA(g) ==
    /\ pc = "bwd"
    /\ units[g].pc = "passA"
    /\ units[g].t < units[g].T
    /\ LET n == BwdPassAIter(args, mem, units[g], g[1], g[2], g[3])
       IN  /\ units' = [units EXCEPT ![g] = n.regs]
           /\ mem' = [mem EXCEPT !.dk.data = n.dk, !.dv.data = n.dv,
                                 !.db.data = n.db]
    /\ args' = WriteThrough(args, mem')
    /\ UNCHANGED <<tc, pc, callIdx, ctx, log>>

\* Lines 200-223 of one program: the dh0 store (USE_INITIAL_STATE is
\* "h0 is not None"), the barrier, the entry of the second pass.  With h0
\* passed and no dh0 buffer the store goes through a null dh0: the program
\* faults.
BwdMid(g) ==
    /\ pc = "bwd"
    /\ units[g].pc = "passA"
    /\ units[g].t = units[g].T
    /\ IF ~args.h0.none /\ mem.dh0.none
       THEN /\ units' = [units EXCEPT ![g].pc = "fault"]
            /\ mem' = mem
       ELSE /\ units' = [units EXCEPT ![g] =
                            BwdPassBEntry(args, units[g], g[1], g[2], g[3])]
            /\ mem' = IF ~args.h0.none
                      THEN [mem EXCEPT !.dh0.data =
                               BwdStoreDh0(args, mem, units[g], g[1], g[2], g[3])]
                      ELSE mem
    /\ args' = WriteThrough(args, mem')
    /\ UNCHANGED <<tc, pc, callIdx, ctx, log>>

\* One iteration of the forward-time loop of the second pass of one program.
BwdStepB(g) ==
    /\ pc = "bwd"
    /\ units[g].pc = "passB"
    /\ units[g].t < units[g].T
    /\ LET n == BwdPassBIter(args, mem, units[g], g[1], g[2], g[3])
       IN  /\ units' = [units EXCEPT ![g] = n.regs]
           /\ mem' = [mem EXCEPT !.dk.data = n.dk, !.dq.data = n.dq]
    /\ args' = WriteThrough(args, mem')
    /\ UNCHANGED <<tc, pc, callIdx, ctx, log>>

Finished(r) == r.pc = "passB" /\ r.t = r.T

\* The kernel has finished: the reductions of lines 368-373, the return of
\* line 433.
ReturnBackward ==
    /\ pc = "bwd"
    /\ \A g \in DOMAIN units : Finished(units[g])
    /\ log' = Append(log, BwdResult(args, mem))
    /\ Advance
    /\ UNCHANGED <<tc, args, mem, units, ctx>>

\* A program of the grid faulted: the call raises.
RaiseBackward ==
    /\ pc = "bwd"
    /\ \E g \in DOMAIN units : units[g].pc = "fault"
    /\ pc' = "error"
    /\ UNCHANGED <<tc, callIdx, args, mem, units, ctx, log>>

Next ==
    \/ CallForward
    \/ \E g \in DOMAIN units : FwdStep(g)
    \/ \E g \in DOMAIN units : FwdFinal(g)
    \/ ReturnForward
    \/ CallBackward
    \/ \E g \in DOMAIN units : BwdStepA(g)
    \/ \E g \in DOMAIN units : BwdMid(g)
    \/ \E g \in DOMAIN units : BwdStepB(g)
    \/ ReturnBackward
    \/ RaiseBackward

Init == Start(TrainCases)

\* Training: one forward call and the backward call autograd makes for it.
Spec == Init /\ [][Next]_vars

NextFwd ==
    \/ CallForward
    \/ \E g \in DOMAIN units : FwdStep(g)
    \/ \E g \in DOMAIN units : FwdFinal(g)
    \/ ReturnForward

InitCarry == Start(CarryCases)

SpecCarry == InitCarry /\ [][NextFwd]_vars

InitPacked == Start(PackedCases)

SpecPacked == InitPacked /\ [][Next]_vars

InitBetaEq == Start(BetaEqCases)

SpecBetaEq == InitBetaEq /\ [][NextFwd]_vars

InitZeroBeta == Start(ZeroBetaCases)

SpecZeroBeta == InitZeroBeta /\ [][NextFwd]_vars

InitTwice == Start(TwiceCases)

SpecTwice == InitTwice /\ [][NextFwd]_vars

NextApi ==
    \/ CallForward
    \/ RaiseForward
    \/ \E g \in DOMAIN units : FwdStep(g)
    \/ \E g \in DOMAIN units : FwdFinal(g)
    \/ ReturnForward

InitIndep == Start(IndepCases)

SpecIndep == InitIndep /\ [][Next]_vars

InitWide == Start(WideCases)

SpecWide == InitWide /\ [][Next]_vars

InitStray == Start(StrayCases)

SpecStray == InitStray /\ [][Next]_vars

InitApi == Start(ApiCases)

SpecApi == InitApi /\ [][NextApi]_vars

---------------------------------------------------------------------------
(* The recurrence of the specification, on logical tensors: sequence n,      *)
(* head h, timestep t, key feature i, value feature j.                       *)

RECURSIVE Flat(_, _)
\* The row-major offset of the multi-index ix in a tensor of shape `shape`.
Flat(shape, ix) ==
    IF Len(shape) = 0 THEN 0
    ELSE Flat(SubSeq(shape, 1, Len(shape) - 1), SubSeq(ix, 1, Len(ix) - 1))
             * shape[Len(shape)] + ix[Len(ix)]

At(x, ix) == x.data[Flat(x.shape, ix)]

SeqCount(inp) ==
    IF inp.cu_seqlens.none THEN inp.k.shape[1] ELSE inp.cu_seqlens.shape[1] - 1

SeqLen(inp, n) ==
    IF inp.cu_seqlens.none THEN inp.k.shape[2]
    ELSE inp.cu_seqlens.data[n + 1] - inp.cu_seqlens.data[n]

\* The <<batch, time>> position of timestep t of sequence n.
Pos(inp, n, t) ==
    IF inp.cu_seqlens.none THEN <<n, t>> ELSE <<0, inp.cu_seqlens.data[n] + t>>

Heads(inp) == inp.k.shape[3]

KDim(inp) == inp.k.shape[4]

VDim(inp) == inp.v.shape[4]

KRange(inp) == 0 .. KDim(inp) - 1

VRange(inp) == 0 .. VDim(inp) - 1

QAt(inp, n, t, h, i) == At(inp.q, Pos(inp, n, t) \o <<h, i>>)

KAt(inp, n, t, h, i) == At(inp.k, Pos(inp, n, t) \o <<h, i>>)

VAt(inp, n, t, h, j) == At(inp.v, Pos(inp, n, t) \o <<h, j>>)

BetaAt(inp, n, t, h, j) ==
    IF Len(inp.beta.shape) = 4
    THEN At(inp.beta, Pos(inp, n, t) \o <<h, j>>)
    ELSE At(inp.beta, Pos(inp, n, t) \o <<h>>)

H0At(inp, n, h, i, j) ==
    IF inp.initial_state.none THEN 0 ELSE At(inp.initial_state, <<n, h, i, j>>)

RECURSIVE SumOver(_, _)
\* The sum of f over the range 0 .. n - 1.
SumOver(f, n) == IF n = 0 THEN 0 ELSE SumOver(f, n - 1) + f[n - 1]

RECURSIVE RefRun(_, _, _, _)
\* The state after the first t timesteps of (n, h), with the value-deltas
\* and outputs of those timesteps: steps 1-5 of the forward recurrence.
RefRun(inp, n, h, t) ==
    IF t = 0
    THEN [H |-> [i \in KRange(inp) |-> [j \in VRange(inp) |->
                    H0At(inp, n, h, i, j)]],
          delta |-> <<>>, o |-> <<>>]
    ELSE LET p == RefRun(inp, n, h, t - 1)
             s == t - 1
             delta == [j \in VRange(inp) |->
                 VAt(inp, n, s, h, j)
                   - SumOver([i \in KRange(inp) |->
                                 p.H[i][j] * KAt(inp, n, s, h, i)], KDim(inp))]
             vp == [j \in VRange(inp) |-> delta[j] * BetaAt(inp, n, s, h, j)]
             Hn == [i \in KRange(inp) |-> [j \in VRange(inp) |->
                 p.H[i][j] + KAt(inp, n, s, h, i) * vp[j]]]
             o == [j \in VRange(inp) |->
                 SumOver([i \in KRange(inp) |->
                             Hn[i][j] * (QAt(inp, n, s, h, i) * inp.scale)],
                         KDim(inp))]
         IN  [H |-> Hn, delta |-> Append(p.delta, delta), o |-> Append(p.o, o)]

---------------------------------------------------------------------------
(* Claims *)

TheInputs == FwdInputs(tc, 1, log)

\* Call i of the scenario has just returned.
Returned(i) == Len(log) = i /\ pc \in {"call", "done"}

\* Program g of the forward grid holds, after its first t iterations, the
\* state, value-deltas and outputs of the recurrence.
UnitFollowsRecurrence(inp, g) ==
    LET n == g[3] \div Heads(inp)
        h == g[3] % Heads(inp)
        r == units[g]
        ref == RefRun(inp, n, h, r.t)
    IN  /\ r.T = SeqLen(inp, n)
        /\ \A i \in KRange(inp), j \in VRange(inp) : r.b_h[j][i] = ref.H[i][j]
        /\ \A s \in 0 .. r.t - 1, j \in VRange(inp) :
              LET a == Flat(inp.v.shape, Pos(inp, n, s) \o <<h, j>>)
              IN  /\ a \in DOMAIN mem.u.data /\ mem.u.data[a] = ref.delta[s + 1][j]
                  /\ a \in DOMAIN mem.o.data /\ mem.o.data[a] = ref.o[s + 1][j]
        /\ (r.pc = "done" /\ ~mem.ht.none) =>
              \A i \in KRange(inp), j \in VRange(inp) :
                  LET a == Flat(mem.ht.shape, <<n, h, i, j>>)
                  IN  a \in DOMAIN mem.ht.data /\ mem.ht.data[a] = ref.H[i][j]

\* The result a forward call returned is that of the recurrence run over
\* all the timesteps of every (sequence, head).
ResultIsRecurrence(inp, res) ==
    /\ res.o.shape = inp.v.shape
    /\ res.final_state.none = ~inp.output_final_state
    /\ \A n \in 0 .. SeqCount(inp) - 1, h \in 0 .. Heads(inp) - 1 :
          LET ref == RefRun(inp, n, h, SeqLen(inp, n))
          IN  /\ \A s \in 0 .. SeqLen(inp, n) - 1, j \in VRange(inp) :
                    /\ At(res.o, Pos(inp, n, s) \o <<h, j>>) = ref.o[s + 1][j]
                    /\ At(res.u, Pos(inp, n, s) \o <<h, j>>) = ref.delta[s + 1][j]
              /\ ~res.final_state.none =>
                    \A i \in KRange(inp), j \in VRange(inp) :
                        At(res.final_state, <<n, h, i, j>>) = ref.H[i][j]

\* C1: in every state of a forward call every program (sequence n, head h)
\* has run the recurrence delta_t = v_t - H.k_t, v'_t = delta_t * beta_t,
\* H := H + k_t (outer) v'_t, o_t = H.(q_t * scale) in this order from
\* H = initial_state[n, h] (zero when none) over its first t timesteps, and
\* the call returns the outputs read after each update and the state reached
\* after the last timestep.
C1_ForwardRecurrence ==
    /\ pc = "fwd" => \A g \in DOMAIN units : UnitFollowsRecurrence(TheInputs, g)
    /\ Returned(1) => ResultIsRecurrence(TheInputs, log[1])

C1_Witness ==
    /\ Returned(1)
    /\ tc.varlen /\ Len(tc.lens) = 2 /\ tc.lens[1] # tc.lens[2] /\ tc.H = 2
    /\ tc.h0kind # "none" /\ tc.ofs /\ tc.seed = 1
    /\ \E a \in DOMAIN log[1].o.data : log[1].o.data[a] # 0

IsExample(c) ==
    /\ ~c.varlen /\ c.B = 1 /\ c.H = 1 /\ c.T = 3 /\ c.K = 1 /\ c.V = 1
    /\ c.seed = 0 /\ c.scale = 1 /\ ~c.headwise /\ c.h0kind = "none"

\* C2: with K = V = 1, T = 3, scale = 1, scalar beta = 1, no initial state
\* and q = k = v = [1, 1, 1], forward returns the value-deltas [1, 0, 0], the
\* output [1, 1, 1] and, when asked for it, the final state 1.
C2_WorkedExample ==
    (IsExample(tc) /\ Returned(1)) =>
        /\ log[1].u.data = [t \in 0 .. 2 |-> IF t = 0 THEN 1 ELSE 0]
        /\ log[1].o.data = [t \in 0 .. 2 |-> 1]
        /\ tc.ofs => log[1].final_state.data = [x \in {0} |-> 1]

C2_Witness ==
    /\ IsExample(tc) /\ tc.ofs /\ Returned(1)
    /\ TheInputs.q.data = [t \in 0 .. 2 |-> 1]
    /\ TheInputs.k.data = [t \in 0 .. 2 |-> 1]
    /\ TheInputs.v.data = [t \in 0 .. 2 |-> 1]
    /\ TheInputs.beta.data = [t \in 0 .. 2 |-> 1]

TheGrads == BwdGrads(tc, 2, log)

DoAt(g, inp, n, t, h, j) == At(g.do, Pos(inp, n, t) \o <<h, j>>)

DhtAt(g, n, h, i, j) == IF g.dht.none THEN 0 ELSE At(g.dht, <<n, h, i, j>>)

RECURSIVE RefPassA(_, _, _, _, _)
\* Pass A after its first t iterations (timesteps T-1 down to T-t) for
\* (n, h): the accumulator G and, in the order computed, dk, dv, dbeta.
RefPassA(inp, g, n, h, t) ==
    IF t = 0
    THEN [G |-> [i \in KRange(inp) |-> [j \in VRange(inp) |->
                    DhtAt(g, n, h, i, j)]],
          dk |-> <<>>, dv |-> <<>>, db |-> <<>>]
    ELSE LET p == RefPassA(inp, g, n, h, t - 1)
             T == SeqLen(inp, n)
             s == T - t
             delta == RefRun(inp, n, h, T).delta[s + 1]
             G1 == [i \in KRange(inp) |-> [j \in VRange(inp) |->
                 p.G[i][j] + (QAt(inp, n, s, h, i) * inp.scale)
                                 * DoAt(g, inp, n, s, h, j)]]
             dk == [i \in KRange(inp) |->
                 SumOver([j \in VRange(inp) |->
                     G1[i][j] * (delta[j] * BetaAt(inp, n, s, h, j))], VDim(inp))]
             dvp == [j \in VRange(inp) |->
                 SumOver([i \in KRange(inp) |->
                     G1[i][j] * KAt(inp, n, s, h, i)], KDim(inp))]
             db == [j \in VRange(inp) |-> dvp[j] * delta[j]]
             dv == [j \in VRange(inp) |-> dvp[j] * BetaAt(inp, n, s, h, j)]
             G2 == [i \in KRange(inp) |-> [j \in VRange(inp) |->
                 G1[i][j] - KAt(inp, n, s, h, i) * dv[j]]]
         IN  [G |-> G2, dk |-> Append(p.dk, dk), dv |-> Append(p.dv, dv),
              db |-> Append(p.db, db)]

IsVector(inp) == Len(inp.beta.shape) = 4

\* The beta gradient of timestep s of (n, h) as backward stores it: entry j
\* in vector mode, the sum over V in scalar mode.
RefDbeta(inp, db, j) ==
    IF IsVector(inp) THEN db[j] ELSE SumOver(db, VDim(inp))

\* Program x of the backward grid, in Pass A, holds after t iterations the
\* accumulator and the stored dk, dv, dbeta of Pass A.
UnitFollowsPassA(inp, g, x) ==
    LET n == x[3] \div Heads(inp)
        h == x[3] % Heads(inp)
        r == units[x]
        T == SeqLen(inp, n)
        ref == RefPassA(inp, g, n, h, r.t)
    IN  /\ \A i \in KRange(inp), j \in VRange(inp) : r.b_dh[i][j] = ref.G[i][j]
        /\ \A c \in 1 .. r.t :
              LET s == T - c
              IN  /\ \A i \in KRange(inp) :
                        mem.dk.data[Flat(inp.k.shape, Pos(inp, n, s) \o <<h, i>>)]
                            = ref.dk[c][i]
                  /\ \A j \in VRange(inp) :
                        mem.dv.data[Flat(inp.v.shape, Pos(inp, n, s) \o <<h, j>>)]
                            = ref.dv[c][j]
                  /\ \A j \in (IF IsVector(inp) THEN VRange(inp) ELSE {0}) :
                        mem.db.data[Flat(inp.beta.shape,
                            Pos(inp, n, s) \o (IF IsVector(inp) THEN <<h, j>>
                                               ELSE <<h>>))]
                            = RefDbeta(inp, ref.db[c], j)

\* Backward returned the dv, dbeta and dh0 of Pass A run over all timesteps.
ResultIsPassA(inp, g, res) ==
    \A n \in 0 .. SeqCount(inp) - 1, h \in 0 .. Heads(inp) - 1 :
        LET T == SeqLen(inp, n)
            ref == RefPassA(inp, g, n, h, T)
        IN  /\ \A s \in 0 .. T - 1, j \in VRange(inp) :
                  /\ At(res.dv, Pos(inp, n, s) \o <<h, j>>) = ref.dv[T - s][j]
                  /\ IsVector(inp) =>
                        At(res.db, Pos(inp, n, s) \o <<h, j>>) = ref.db[T - s][j]
                  /\ ~IsVector(inp) =>
                        At(res.db, Pos(inp, n, s) \o <<h>>)
                            = SumOver(ref.db[T - s], VDim(inp))
            /\ ~res.dh0.none =>
                  \A i \in KRange(inp), j \in VRange(inp) :
                      At(res.dh0, <<n, h, i, j>>) = ref.G[i][j]

\* C3: Pass A.  For every (sequence, head) G starts at dht when a final-state
\* gradient is passed and at zero otherwise; for t = T-1 down to 0 it does
\* G += (q_t * scale) (outer) do_t, dk_t = G.(delta_t * beta_t),
\* dv'_t = G^T.k_t, dbeta_t = dv'_t * delta_t (summed over V in scalar mode),
\* dv_t = dv'_t * beta_t, G -= k_t (outer) dv_t; the dh0 returned when an
\* initial-state gradient is requested is G after the step for t = 0.
C3_PassA ==
    /\ pc = "bwd" =>
          \A x \in DOMAIN units :
              units[x].pc = "passA" => UnitFollowsPassA(TheInputs, TheGrads, x)
    /\ Returned(2) =>
          /\ ResultIsPassA(TheInputs, TheGrads, log[2])
          /\ log[2].dh0.none = (tc.h0kind # "grad")

C3_Witness ==
    /\ Returned(2)
    /\ tc.dht /\ tc.h0kind = "grad" /\ tc.K = 2 /\ tc.V = 2 /\ tc.seed = 1
    /\ \E a \in DOMAIN log[2].dh0.data :
          log[2].dh0.data[a] # TheGrads.dht.data[a]

\* Program x of the backward grid, in Pass B, holds after t iterations the
\* state of forward after t timesteps and has stored the corrected dk and
\* the dq of those timesteps.
UnitFollowsPassB(inp, g, x) ==
    LET n == x[3] \div Heads(inp)
        h == x[3] % Heads(inp)
        r == units[x]
        T == SeqLen(inp, n)
        a == RefPassA(inp, g, n, h, T)
    IN  /\ \A i \in KRange(inp), j \in VRange(inp) :
              r.b_h[i][j] = RefRun(inp, n, h, r.t).H[i][j]
        /\ \A s \in 0 .. r.t - 1, i \in KRange(inp) :
              LET before == RefRun(inp, n, h, s).H
                  after == RefRun(inp, n, h, s + 1).H
                  p == Flat(inp.k.shape, Pos(inp, n, s) \o <<h, i>>)
              IN  /\ mem.dk.data[p] =
                        a.dk[T - s][i]
                          - SumOver([j \in VRange(inp) |->
                                        before[i][j] * a.dv[T - s][j]], VDim(inp))
                  /\ mem.dq.data[p] =
                        SumOver([j \in VRange(inp) |->
                                    after[i][j] * DoAt(g, inp, n, s, h, j)],
                                VDim(inp)) * inp.scale

\* C4: Pass B.  Re-walking t = 0 .. T-1 with H seeded from the initial state
\* (zero when none), dk_t of Pass A is corrected with the state before step
\* t's update (dk_t -= H_{t-1}.dv_t), H is updated by
\* k_t (outer) (delta_t * beta_t), dq_t = (H_t.do_t) * scale is read from the
\* state after the update, and H equals forward's H at every t.
C4_PassB ==
    pc = "bwd" =>
        \A x \in DOMAIN units :
            units[x].pc = "passB" => UnitFollowsPassB(TheInputs, TheGrads, x)

C4_Witness ==
    /\ pc = "bwd"
    /\ tc.h0kind = "grad" /\ tc.K = 2 /\ tc.V = 2 /\ tc.seed = 1
    /\ \E x \in DOMAIN units :
          /\ units[x].pc = "passB" /\ units[x].t = units[x].T /\ units[x].T >= 1
          /\ \E i \in 0 .. 1, j \in 0 .. 1 : units[x].b_h[i][j] # 0
          /\ \E p \in DOMAIN mem.dq.data : mem.dq.data[p] # 0

\* C10: the buffer u forward returns holds, at every timestep, the residual
\* v_t - H_{t-1}.k_t before its multiplication by beta_t, and the value
\* input of the backward kernel is this saved buffer.
C10_SavedDelta ==
    /\ Returned(1) =>
          \A n \in 0 .. SeqCount(TheInputs) - 1, h \in 0 .. Heads(TheInputs) - 1 :
              \A s \in 0 .. SeqLen(TheInputs, n) - 1, j \in VRange(TheInputs) :
                  At(log[1].u, Pos(TheInputs, n, s) \o <<h, j>>) =
                      VAt(TheInputs, n, s, h, j)
                        - SumOver([i \in KRange(TheInputs) |->
                              RefRun(TheInputs, n, h, s).H[i][j]
                                * KAt(TheInputs, n, s, h, i)], KDim(TheInputs))
    /\ pc = "bwd" => args.v = log[1].u

C10_Witness ==
    /\ pc = "bwd"
    /\ args.v # TheInputs.v
    /\ tc.headwise /\ tc.T >= 2
    /\ \E a \in DOMAIN args.v.data :
          args.v.data[a] * TheInputs.beta.data[a] # args.v.data[a]

\* The derivative of element ix of tensor x with respect to the input
\* element w = <<name, flat index>>.
Seed(name, x, ix, w) ==
    IF w[1] = name /\ w[2] = Flat(x.shape, ix) THEN 1 ELSE 0

DBetaAt(inp, n, t, h, j, w) ==
    IF IsVector(inp)
    THEN Seed("beta", inp.beta, Pos(inp, n, t) \o <<h, j>>, w)
    ELSE Seed("beta", inp.beta, Pos(inp, n, t) \o <<h>>, w)

DH0At(inp, n, h, i, j, w) ==
    IF inp.initial_state.none THEN 0
    ELSE Seed("initial_state", inp.initial_state, <<n, h, i, j>>, w)

RECURSIVE RefTangent(_, _, _, _, _, _)
\* The forward recurrence of (n, h) differentiated along the input element
\* w: the state H after t steps, its derivative dH, and the derivative L of
\* sum_{s < t} do_s . o_s.
RefTangent(inp, g, n, h, t, w) ==
    IF t = 0
    THEN [H |-> [i \in KRange(inp) |-> [j \in VRange(inp) |->
                    H0At(inp, n, h, i, j)]],
          dH |-> [i \in KRange(inp) |-> [j \in VRange(inp) |->
                    DH0At(inp, n, h, i, j, w)]],
          L |-> 0]
    ELSE LET p == RefTangent(inp, g, n, h, t - 1, w)
             s == t - 1
             at == Pos(inp, n, s)
             q == [i \in KRange(inp) |-> QAt(inp, n, s, h, i)]
             k == [i \in KRange(inp) |-> KAt(inp, n, s, h, i)]
             b == [j \in VRange(inp) |-> BetaAt(inp, n, s, h, j)]
             dq == [i \in KRange(inp) |-> Seed("q", inp.q, at \o <<h, i>>, w)]
             dk == [i \in KRange(inp) |-> Seed("k", inp.k, at \o <<h, i>>, w)]
             dv == [j \in VRange(inp) |-> Seed("v", inp.v, at \o <<h, j>>, w)]
             db == [j \in VRange(inp) |-> DBetaAt(inp, n, s, h, j, w)]
             delta == [j \in VRange(inp) |->
                 VAt(inp, n, s, h, j)
                   - SumOver([i \in KRange(inp) |-> p.H[i][j] * k[i]], KDim(inp))]
             ddelta == [j \in VRange(inp) |->
                 dv[j] - SumOver([i \in KRange(inp) |->
                             p.dH[i][j] * k[i] + p.H[i][j] * dk[i]], KDim(inp))]
             vp == [j \in VRange(inp) |-> delta[j] * b[j]]
             dvp == [j \in VRange(inp) |-> ddelta[j] * b[j] + delta[j] * db[j]]
             Hn == [i \in KRange(inp) |-> [j \in VRange(inp) |->
                 p.H[i][j] + k[i] * vp[j]]]
             dHn == [i \in KRange(inp) |-> [j \in VRange(inp) |->
                 p.dH[i][j] + dk[i] * vp[j] + k[i] * dvp[j]]]
             do == [j \in VRange(inp) |->
                 SumOver([i \in KRange(inp) |->
                     (dHn[i][j] * q[i] + Hn[i][j] * dq[i]) * inp.scale],
                         KDim(inp))]
         IN  [H |-> Hn, dH |-> dHn,
              L |-> p.L + SumOver([j \in VRange(inp) |->
                                      DoAt(g, inp, n, s, h, j) * do[j]],
                                  VDim(inp))]

\* The derivative along w of the loss sum(do * o) + sum(dht * final_state).
LossDerivative(inp, g, w) ==
    SumOver([n \in 0 .. SeqCount(inp) - 1 |->
        SumOver([h \in 0 .. Heads(inp) - 1 |->
            LET r == RefTangent(inp, g, n, h, SeqLen(inp, n), w)
            IN  r.L + SumOver([i \in KRange(inp) |->
                        SumOver([j \in VRange(inp) |->
                            DhtAt(g, n, h, i, j) * r.dH[i][j]], VDim(inp))],
                              KDim(inp))],
                Heads(inp))],
            SeqCount(inp))

IsGradient(name, x, dx, inp, g) ==
    /\ dx.shape = x.shape
    /\ \A a \in Idx(x.shape) : dx.data[a] = LossDerivative(inp, g, <<name, a>>)

\* C5: the dq, dk, dv, dbeta and dh0 that backward returns are the
\* derivatives, with respect to q, k, v, beta and initial_state, of the loss
\* sum(do * output) (+ sum(dht * final_state) when dht is passed) of the
\* forward recurrence; with do = all-ones and no dht the loss is sum(output).
C5_GradientCheck ==
    Returned(2) =>
        /\ IsGradient("q", TheInputs.q, log[2].dq, TheInputs, TheGrads)
        /\ IsGradient("k", TheInputs.k, log[2].dk, TheInputs, TheGrads)
        /\ IsGradient("v", TheInputs.v, log[2].dv, TheInputs, TheGrads)
        /\ IsGradient("beta", TheInputs.beta, log[2].db, TheInputs, TheGrads)
        /\ ~log[2].dh0.none =>
              IsGradient("initial_state", TheInputs.initial_state, log[2].dh0,
                         TheInputs, TheGrads)

AllOnes(x) == \A a \in DOMAIN x.data : x.data[a] = 1

NonZero(x) == \E a \in DOMAIN x.data : x.data[a] # 0

C5_Witness ==
    /\ Returned(2)
    /\ ~tc.varlen /\ tc.B = 1 /\ tc.H = 1 /\ tc.T = 3 /\ tc.K = 2 /\ tc.V = 1
    /\ tc.seed = 2 /\ tc.h0kind = "grad" /\ ~tc.dht
    /\ AllOnes(TheGrads.do)
    /\ NonZero(log[2].dq) /\ NonZero(log[2].dk) /\ NonZero(log[2].dv)
    /\ NonZero(log[2].db) /\ NonZero(log[2].dh0)

\* C6: for every sequence of the batch and every split point s in 0 .. T,
\* forward on the timesteps [0, s) with output_final_state = True followed
\* by forward on [s, T) with that final state as initial_state gives the
\* outputs, value-deltas and final state of one forward call on [0, T).
C6_CarryOver ==
    Returned(3) =>
        /\ log[3].final_state = log[1].final_state
        /\ \A b \in 0 .. tc.B - 1, t \in 0 .. tc.T - 1, h \in 0 .. tc.H - 1,
              j \in 0 .. tc.V - 1 :
              LET part == IF t < tc.split THEN log[2] ELSE log[3]
                  at == IF t < tc.split THEN <<b, t, h, j>>
                        ELSE <<b, t - tc.split, h, j>>
              IN  /\ At(log[1].o, <<b, t, h, j>>) = At(part.o, at)
                  /\ At(log[1].u, <<b, t, h, j>>) = At(part.u, at)

C6_Witness ==
    /\ Returned(3)
    /\ tc.split = 1 /\ tc.T = 3 /\ tc.K = 2 /\ tc.h0kind = "nograd"
    /\ NonZero(log[2].final_state) /\ NonZero(log[3].o)
    /\ log[2].final_state # log[1].final_state
    /\ log[2].final_state # TheInputs.initial_state

\* Element xi of x and element yi of y are written and equal.
EqAt(x, xi, y, yi) ==
    LET a == Flat(x.shape, xi)
        b == Flat(y.shape, yi)
    IN  /\ a \in DOMAIN x.data /\ b \in DOMAIN y.data
        /\ x.data[a] = y.data[b]

Same(x, xi, y, yi) ==
    /\ x.none = y.none
    /\ ~x.none => EqAt(x, xi, y, yi)

\* C7: N sequences packed along the time axis with batch size 1 and a valid
\* cu_seqlens give, for each sequence, the forward outputs and final state
\* and the gradients dq, dk, dv, dbeta, dh0 of the same sequences run as a
\* fixed-length batch padded with zero q, k, v, beta and zero do.
C7_PackedVsBatched ==
    LET inp == TheInputs
        vec == IF IsVector(inp) THEN VRange(inp) ELSE {0}
        bix(h, j) == IF IsVector(inp) THEN <<h, j>> ELSE <<h>>
    IN  \A n \in 0 .. SeqCount(inp) - 1, h \in 0 .. Heads(inp) - 1 :
            /\ Returned(3) =>
                  /\ \A t \in 0 .. SeqLen(inp, n) - 1, j \in VRange(inp) :
                        EqAt(log[1].o, Pos(inp, n, t) \o <<h, j>>,
                              log[3].o, <<n, t, h, j>>)
                  /\ \A i \in KRange(inp), j \in VRange(inp) :
                        Same(log[1].final_state, <<n, h, i, j>>,
                             log[3].final_state, <<n, h, i, j>>)
            /\ Returned(4) =>
                  /\ \A t \in 0 .. SeqLen(inp, n) - 1 :
                        /\ \A i \in KRange(inp) :
                              /\ EqAt(log[2].dq, Pos(inp, n, t) \o <<h, i>>,
                                      log[4].dq, <<n, t, h, i>>)
                              /\ EqAt(log[2].dk, Pos(inp, n, t) \o <<h, i>>,
                                      log[4].dk, <<n, t, h, i>>)
                        /\ \A j \in VRange(inp) :
                              EqAt(log[2].dv, Pos(inp, n, t) \o <<h, j>>,
                                    log[4].dv, <<n, t, h, j>>)
                        /\ \A j \in vec :
                              EqAt(log[2].db, Pos(inp, n, t) \o bix(h, j),
                                    log[4].db, <<n, t>> \o bix(h, j))
                  /\ \A i \in KRange(inp), j \in VRange(inp) :
                        Same(log[2].dh0, <<n, h, i, j>>,
                             log[4].dh0, <<n, h, i, j>>)

C7_Witness ==
    /\ Returned(4)
    /\ Len(tc.lens) = 2 /\ tc.lens[1] < tc.lens[2]
    /\ tc.h0kind = "grad" /\ tc.dht
    /\ NonZero(log[1].o) /\ NonZero(log[4].dq) /\ NonZero(log[4].dk)
    /\ NonZero(log[4].dv) /\ NonZero(log[4].db) /\ NonZero(log[4].dh0)
    /\ log[3].o.shape[1] = 2 /\ log[3].o.shape[2] = tc.lens[2]

\* C8: forward with a scalar-mode beta b (shape [*, T, H]) returns the
\* outputs, value-deltas and final state of forward with the vector-mode
\* beta (shape [*, T, H, V]) whose V components all equal b.
C8_BetaEquivalence ==
    Returned(2) =>
        /\ log[1].o = log[2].o
        /\ log[1].u = log[2].u
        /\ log[1].final_state = log[2].final_state

C8_Witness ==
    /\ Returned(2)
    /\ tc.V = 2 /\ tc.H = 1 /\ TcT(tc) = 3 /\ tc.ofs /\ tc.seed = 1
    /\ Len(FwdInputs(tc, 1, log).beta.shape) = 3
    /\ Len(FwdInputs(tc, 2, log).beta.shape) = 4
    /\ \E a \in DOMAIN TheInputs.beta.data : TheInputs.beta.data[a] \notin {0, 1}
    /\ NonZero(log[2].o) /\ NonZero(log[2].final_state)

\* C9: with beta zero at every timestep the state after every step is the
\* initial state (zero when none is given), the final state returned equals
\* it, and every stored delta_t is v_t - initial_state.k_t.
C9_ZeroBeta ==
    LET inp == TheInputs
    IN  /\ pc = "fwd" =>
              \A g \in DOMAIN units : \A i \in KRange(inp), j \in VRange(inp) :
                  units[g].b_h[j][i]
                      = H0At(inp, g[3] \div Heads(inp), g[3] % Heads(inp), i, j)
        /\ Returned(1) =>
              \A n \in 0 .. SeqCount(inp) - 1, h \in 0 .. Heads(inp) - 1 :
                  /\ ~log[1].final_state.none =>
                        \A i \in KRange(inp), j \in VRange(inp) :
                            At(log[1].final_state, <<n, h, i, j>>)
                                = H0At(inp, n, h, i, j)
                  /\ \A t \in 0 .. SeqLen(inp, n) - 1, j \in VRange(inp) :
                        At(log[1].u, Pos(inp, n, t) \o <<h, j>>) =
                            VAt(inp, n, t, h, j)
                              - SumOver([i \in KRange(inp) |->
                                    H0At(inp, n, h, i, j) * KAt(inp, n, t, h, i)],
                                        KDim(inp))

C9_Witness ==
    /\ Returned(1)
    /\ tc.betaKind = "zero" /\ tc.h0kind # "none" /\ tc.ofs
    /\ tc.K = 2 /\ TcT(tc) = 3 /\ tc.seed = 1
    /\ \A a \in DOMAIN TheInputs.beta.data : TheInputs.beta.data[a] = 0
    /\ NonZero(log[1].final_state) /\ NonZero(log[1].u)
    /\ log[1].u # TheInputs.v

\* C11: two forward invocations on identical inputs return identical
\* outputs, value-delta buffers and final states, whatever the order in
\* which the programs of the two grids were scheduled.
C11_Determinism ==
    Returned(2) =>
        /\ FwdInputs(tc, 1, log) = FwdInputs(tc, 2, log)
        /\ log[1].o = log[2].o
        /\ log[1].u = log[2].u
        /\ log[1].final_state = log[2].final_state

C11_Witness ==
    /\ Returned(2)
    /\ Cardinality(DOMAIN units) >= 2
    /\ \/ tc.V \in WideFwdV
       \/ tc.varlen /\ Len(tc.lens) = 2 /\ tc.H = 1
    /\ NonZero(log[2].o) /\ NonZero(log[2].u) /\ NonZero(log[2].final_state)
    /\ Full(log[2].o) /\ Full(log[2].u) /\ Full(log[2].final_state)

\* Nothing has been allocated and no kernel has been launched by the first
\* call.
NothingLaunched == args = NoArgs /\ mem = NoMem /\ units = <<>> /\ ctx = NoCtx

\* C12: when cu_seqlens is given and the leading (batch) dimension of q is
\* not 1, the call raises ValueError, and it does so before any output is
\* allocated and before any kernel is launched.
C12_PackedBatchRejected ==
    (~TheInputs.cu_seqlens.none /\ TheInputs.q.shape[1] # 1) =>
        /\ pc \in {"call", "error"}
        /\ NothingLaunched
        /\ pc = "error" => log = <<[error |-> "ValueError"]>>

C12_Witness ==
    /\ tc.quirk = "batch"
    /\ ~TheInputs.cu_seqlens.none
    /\ TheInputs.q.shape[1] = MaxN
    /\ pc = "error"
    /\ log = <<[error |-> "ValueError"]>>
    /\ NothingLaunched

\* The number of sequences of a call: len(cu_seqlens) - 1 for packed inputs,
\* the batch size otherwise.
SeqsOf(inp) ==
    IF inp.cu_seqlens.none THEN inp.q.shape[1] ELSE inp.cu_seqlens.shape[1] - 1

\* C13: an initial_state whose leading dimension is not N (len(cu_seqlens) - 1
\* for packed inputs, the batch size B for fixed-length inputs) is rejected at
\* the boundary: the call raises and nothing is allocated or launched.
C13_StateRowsRejected ==
    (/\ ~TheInputs.initial_state.none
     /\ TheInputs.initial_state.shape[1] # SeqsOf(TheInputs)) =>
        /\ pc \in {"call", "error"}
        /\ NothingLaunched

\* C14: when scale is omitted the kernel runs with scale = K ** -0.5 (the
\* outputs are those of the recurrence on q / sqrt(K) with scale 1), and a
\* scale that is not strictly positive is rejected (AssertionError) before
\* anything is allocated or launched.
C14_DefaultAndPositiveScale ==
    /\ (TheInputs.scale_none /\ pc = "fwd") =>
          /\ args.scale = 1
          /\ args.scale_den * args.scale_den = tc.K
    /\ (TheInputs.scale_none /\ Returned(1)) =>
          ResultIsRecurrence([TcInputs(tc) EXCEPT !.scale = 1], log[1])
    /\ (~TheInputs.scale_none /\ TheInputs.scale <= 0) =>
          /\ pc \in {"call", "error"}
          /\ NothingLaunched
          /\ pc = "error" => log = <<[error |-> "AssertionError"]>>

C14_Witness ==
    /\ tc.quirk = "noscale"
    /\ TheInputs.scale_none
    /\ tc.K > 1
    /\ Returned(1)
    /\ ctx.scale_den > 1
    /\ NonZero(log[1].o)
    /\ Full(log[1].o)

\* cu_seqlens starts at 0, ends at the number of tokens T and is strictly
\* increasing.
WellFormed(cu, T) ==
    LET N == cu.shape[1] - 1
    IN  /\ cu.data[0] = 0
        /\ cu.data[N] = T
        /\ \A i \in 0 .. N - 1 : cu.data[i] < cu.data[i + 1]

\* C15: a cu_seqlens that does not start at 0, does not end at the total
\* number of tokens or is not strictly increasing is rejected eagerly: the
\* call raises, and the offsets never reach a kernel.
C15_MalformedOffsetsRejected ==
    (/\ ~TheInputs.cu_seqlens.none
     /\ ~WellFormed(TheInputs.cu_seqlens, TheInputs.q.shape[2])) =>
        /\ pc \in {"call", "error"}
        /\ NothingLaunched

C17_OmittedBetaIsOnes ==
    /\ (TheInputs.beta.none /\ callIdx = 1 /\ pc = "fwd") =>
          /\ ~args.IS_BETA_HEADWISE
          /\ args.beta.shape = SubSeq(args.q.shape, 1, 3)
          /\ AllOnes(args.beta)
    /\ (TheInputs.beta.none /\ Returned(2)) =>
          /\ [FwdInputs(tc, 2, log) EXCEPT !.beta = None] = TheInputs
          /\ AllOnes(FwdInputs(tc, 2, log).beta)
          /\ log[1].o = log[2].o
          /\ log[1].u = log[2].u
          /\ log[1].final_state = log[2].final_state

C17_Witness ==
    /\ tc.quirk = "nobeta"
    /\ TheInputs.beta.none
    /\ Returned(2)
    /\ TcT(tc) >= 2
    /\ NonZero(log[1].o) /\ NonZero(log[1].u) /\ NonZero(log[1].final_state)
    /\ Full(log[1].o) /\ Full(log[1].u)
    /\ Len(FwdInputs(tc, 2, log).beta.shape) = 3

\* C18: neither forward nor backward writes to the caller's initial_state,
\* q, k, v or beta (nor to the gradients handed to backward): throughout both
\* calls the tensors the kernels are handed hold what the caller passed, and
\* every buffer a kernel stores to - the final state and dh0 among them -
\* occupies newly allocated storage, never the storage of a caller's tensor.
C18_InputsUntouched ==
    (pc \in {"fwd", "bwd"} \/ Len(log) >= 1) =>
        /\ args.q = TheInputs.q
        /\ args.k = TheInputs.k
        /\ args.beta = TheInputs.beta
        /\ args.h0 = TheInputs.initial_state
        /\ pc \in {"fwd", "call"} => args.v = TheInputs.v
        /\ pc \notin {"fwd", "call"} =>
              /\ args.v = log[1].u
              /\ args.do = TheGrads.do
              /\ args.dht = TheGrads.dht
        /\ \A b \in Buffers :
              ~mem[b].none => mem.at[b] \notin CallerTensors

C18_Witness ==
    /\ Returned(2)
    /\ tc.h0kind = "grad" /\ tc.ofs /\ TcT(tc) >= 2
    /\ ~mem.dh0.none /\ Full(mem.dh0) /\ NonZero(mem.dh0)
    /\ mem.dh0.data # TheInputs.initial_state.data
    /\ Full(log[1].final_state)
    /\ log[1].final_state.data # TheInputs.initial_state.data
    /\ args.h0 = TheInputs.initial_state

\* The programs that have stored to element x of buffer b, one entry per
\* store.
Writers(b, x) == IF <<b, x>> \in DOMAIN mem.wr THEN mem.wr[<<b, x>>] ELSE <<>>

\* C19: in forward, under every interleaving of the programs and for valid
\* cu_seqlens, no element of the output, of the value-delta buffer or of the
\* requested final state is ever stored to twice, no store falls outside the
\* buffers, and when the call returns every element has been stored to
\* exactly once - hence by exactly one program.
C19_WrittenExactlyOnce ==
    /\ pc = "fwd" =>
          \A x \in DOMAIN mem.wr :
              /\ Len(mem.wr[x]) = 1
              /\ ~mem[x[1]].none
              /\ x[2] \in Idx(mem[x[1]].shape)
    /\ (Len(log) >= 1 /\ pc \in {"call", "done"}) =>
          \A b \in {"o", "u", "ht"} :
              ~mem[b].none =>
                  /\ Full(mem[b])
                  /\ \A x \in Idx(mem[b].shape) : Len(Writers(b, x)) = 1

C19_Witness ==
    /\ Returned(2)
    /\ \/ tc.V \in WideFwdV
       \/ tc.varlen /\ Len(tc.lens) = 2 /\ tc.lens[1] # tc.lens[2]
    /\ ~mem.ht.none
    /\ Cardinality(DOMAIN units) >= 2
    /\ Cardinality({Writers("o", x)[1] : x \in Idx(mem.o.shape)}) >= 2
    /\ Cardinality({Writers("ht", x)[1] : x \in Idx(mem.ht.shape)}) >= 2
    /\ \A x \in Idx(mem.u.shape) : Len(Writers("u", x)) = 1

\* Element ix of x has been stored and holds val.
Holds(x, ix, val) ==
    /\ Flat(x.shape, ix) \in DOMAIN x.data
    /\ x.data[Flat(x.shape, ix)] = val

\* Backward returned the gradients of the computation that is not split over
\* value blocks: dv and dbeta of Pass A (dbeta per value feature in vector
\* mode, summed over V in scalar mode), dk of Pass A corrected in Pass B, and
\* the dq of Pass B.
ResultIsUnsplit(inp, g, res) ==
    \A n \in 0 .. SeqCount(inp) - 1, h \in 0 .. Heads(inp) - 1 :
        LET T == SeqLen(inp, n)
            a == RefPassA(inp, g, n, h, T)
        IN  \A s \in 0 .. T - 1 :
                LET before == RefRun(inp, n, h, s).H
                    after == RefRun(inp, n, h, s + 1).H
                IN  /\ \A j \in VRange(inp) :
                          /\ Holds(res.dv, Pos(inp, n, s) \o <<h, j>>,
                                   a.dv[T - s][j])
                          /\ IsVector(inp) =>
                                Holds(res.db, Pos(inp, n, s) \o <<h, j>>,
                                      a.db[T - s][j])
                    /\ ~IsVector(inp) =>
                          Holds(res.db, Pos(inp, n, s) \o <<h>>,
                                SumOver(a.db[T - s], VDim(inp)))
                    /\ \A i \in KRange(inp) :
                          /\ Holds(res.dk, Pos(inp, n, s) \o <<h, i>>,
                                   a.dk[T - s][i]
                                     - SumOver([j \in VRange(inp) |->
                                                   before[i][j] * a.dv[T - s][j]],
                                               VDim(inp)))
                          /\ Holds(res.dq, Pos(inp, n, s) \o <<h, i>>,
                                   SumOver([j \in VRange(inp) |->
                                               after[i][j]
                                                 * DoAt(g, inp, n, s, h, j)],
                                           VDim(inp)) * inp.scale)

\* C20: when backward splits V over several value blocks (NV > 1), the
\* per-block partial results are reduced so that the returned dq, dk, dv and
\* dbeta equal those of the unsplit computation - dbeta summed over V in
\* scalar mode, per value feature in vector mode - and every element of the
\* returned gradients has been written.
C20_SplitBackwardReduces ==
    (Returned(2) /\ args.NV > 1) =>
        /\ Full(log[2].dq) /\ Full(log[2].dk) /\ Full(log[2].dv)
        /\ Full(log[2].db)
        /\ ResultIsUnsplit(TheInputs, TheGrads, log[2])

\* C24: in every backward call a program stores the initial-state gradient
\* only when a dh0 buffer was allocated: with an initial state that does not
\* require a gradient dh0 is none, and no program stores through it.
C24_Dh0StoredOnlyWhenAllocated ==
    (pc \in {"bwd", "error"} /\ Len(log) = 1) =>
        /\ mem.dh0.none = ~(~args.h0.none /\ ctx.requires_grad)
        /\ mem.dh0.none => \A g \in DOMAIN units : units[g].pc # "fault"

\* Results x and y agree on every token of sequence n (last dimension of
\* extent d).
SameTokens(inp, n, x, y, d) ==
    \A s \in 0 .. SeqLen(inp, n) - 1, h \in 0 .. Heads(inp) - 1, e \in 0 .. d - 1 :
        EqAt(x, Pos(inp, n, s) \o <<h, e>>, y, Pos(inp, n, s) \o <<h, e>>)

\* Results x and y (one [H, K, V] row per sequence, or none) agree on the row
\* of sequence n.
SameRow(inp, n, x, y) ==
    /\ x.none = y.none
    /\ ~x.none =>
          \A h \in 0 .. Heads(inp) - 1, i \in KRange(inp), j \in VRange(inp) :
              EqAt(x, <<n, h, i, j>>, y, <<n, h, i, j>>)

\* Some written element of x differs from the same element of y.
Differ(x, y) ==
    \E a \in DOMAIN x.data \cap DOMAIN y.data : x.data[a] # y.data[a]

\* C25: sequences are independent.  Two rounds (forward, backward) on a packed
\* or fixed-length batch that agree on the tokens, the initial state and the
\* output gradients of sequence n and differ on the other sequences give the
\* same outputs, value-deltas, final state and gradients for sequence n.
C25_SequencesIndependent ==
    LET inp == TheInputs
        n == tc.keep
    IN  /\ (Len(log) >= 3 /\ pc # "fwd") =>
              /\ SameTokens(inp, n, log[1].o, log[3].o, VDim(inp))
              /\ SameTokens(inp, n, log[1].u, log[3].u, VDim(inp))
              /\ SameRow(inp, n, log[1].final_state, log[3].final_state)
        /\ Returned(4) =>
              /\ SameTokens(inp, n, log[2].dq, log[4].dq, KDim(inp))
              /\ SameTokens(inp, n, log[2].dk, log[4].dk, KDim(inp))
              /\ SameTokens(inp, n, log[2].dv, log[4].dv, VDim(inp))
              /\ IF IsVector(inp)
                 THEN SameTokens(inp, n, log[2].db, log[4].db, VDim(inp))
                 ELSE \A s \in 0 .. SeqLen(inp, n) - 1, h \in 0 .. Heads(inp) - 1 :
                          EqAt(log[2].db, Pos(inp, n, s) \o <<h>>,
                               log[4].db, Pos(inp, n, s) \o <<h>>)
              /\ SameRow(inp, n, log[2].dh0, log[4].dh0)

C25_Witness ==
    /\ Returned(4)
    /\ tc.scn = "indep" /\ tc.h0kind = "grad" /\ tc.dht
    /\ SeqLen(TheInputs, tc.keep) >= 1
    /\ Differ(TheInputs.k, FwdInputs(tc, 3, log).k)
    /\ Differ(TheInputs.initial_state, FwdInputs(tc, 3, log).initial_state)
    /\ Differ(log[1].o, log[3].o)
    /\ Differ(log[1].final_state, log[3].final_state)
    /\ Differ(log[2].dk, log[4].dk)
    /\ Differ(log[2].dh0, log[4].dh0)
    /\ NonZero(log[4].dq) /\ NonZero(log[4].db)

---------------------------------------------------------------------------
(* RWKV7 configuration (fla/models/rwkv7/configuration_rwkv7.py).          *)
(* The constructor is run on the variables of the machine above: tc is the *)
(* keyword arguments, ctx the configuration object once constructed, log   *)
(* the exception raised.                                                   *)

MaxLayers == 2
MaxHidden == 3
MaxDim == 6

\* value_dim as the caller passes it: None, an int, or a list of ints.
ValueDimArg(kind, int, list) == [kind |-> kind, int |-> int, list |-> list]

ValueDimArgs ==
    {ValueDimArg("none", 0, <<>>)}
        \cup {ValueDimArg("int", n, <<>>) : n \in 0 .. MaxDim}
        \cup {ValueDimArg("list", 0, s) :
                s \in UNION {[1 .. l -> 0 .. MaxDim] : l \in 0 .. MaxLayers + 1}}

ConfigCases ==
    {[scn |-> "config", hidden_size |-> hs, num_hidden_layers |-> nl,
      value_dim |-> vd] :
        hs \in 1 .. MaxHidden, nl \in 0 .. MaxLayers, vd \in ValueDimArgs}

Replicate(v, n) == [i \in 1 .. n |-> v]

\* The first assertion that fails while the loop walks the list, "ok" if none.
RECURSIVE CheckEntries(_, _, _)
CheckEntries(list, i, hidden_size) ==
    IF i > Len(list) THEN "ok"
    ELSE IF ~(list[i] >= hidden_size)
        THEN "value_dim must be greater than hidden_size"
    ELSE IF ~(list[i] % hidden_size = 0)
        THEN "value_dim must be divisible by hidden_size"
    ELSE CheckEntries(list, i + 1, hidden_size)

ValueDimCheck_NoDivisibility(c) ==
    IF c.value_dim.kind = "none" THEN "ok"
    ELSE IF c.value_dim.kind = "int" THEN
        IF ~(c.value_dim.int >= c.hidden_size)
            THEN "value_dim must be greater than hidden_size"
        ELSE "ok"
    ELSE IF ~(Len(c.value_dim.list) = c.num_hidden_layers)
        THEN "value_dim must have the same length as num_hidden_layers"
    ELSE IF \E i \in 1 .. Len(c.value_dim.list) :
                ~(c.value_dim.list[i] >= c.hidden_size)
        THEN "value_dim must be greater than hidden_size"
    ELSE "ok"

\* The assertions of the value_dim branches: the message of the one that
\* fails, "ok" when the constructor goes on.
ValueDimCheck(c) ==
    IF c.value_dim.kind = "none" THEN "ok"
    ELSE IF c.value_dim.kind = "int" THEN
        IF ~(c.value_dim.int >= c.hidden_size)
            THEN "value_dim must be greater than hidden_size"
        ELSE IF ~(c.value_dim.int % c.hidden_size = 0)
            THEN "value_dim must be divisible by hidden_size"
        ELSE "ok"
    ELSE IF ~(Len(c.value_dim.list) = c.num_hidden_layers)
        THEN "value_dim must have the same length as num_hidden_layers"
    ELSE CheckEntries(c.value_dim.list, 1, c.hidden_size)

\* The value bound to self.value_dim.
ValueDimNormal(c) ==
    IF c.value_dim.kind = "none"
        THEN Replicate(c.hidden_size, c.num_hidden_layers)
    ELSE IF c.value_dim.kind = "int"
        THEN Replicate(c.value_dim.int, c.num_hidden_layers)
    ELSE c.value_dim.list

\* RWKV7Config.__init__ running to its end.
ConfigInit ==
    /\ pc = "call"
    /\ tc.scn = "config"
    /\ ValueDimCheck(tc) = "ok"
    /\ ctx' = [none |-> FALSE,
               hidden_size |-> tc.hidden_size,
               num_hidden_layers |-> tc.num_hidden_layers,
               value_dim |-> ValueDimNormal(tc)]
    /\ pc' = "done"
    /\ UNCHANGED <<tc, callIdx, args, mem, units, log>>

\* RWKV7Config.__init__ stopped by an assertion: no object is constructed.
ConfigRaise ==
    /\ pc = "call"
    /\ tc.scn = "config"
    /\ ValueDimCheck(tc) # "ok"
    /\ log' = Append(log, [error |-> "AssertionError",
                         message |-> ValueDimCheck(tc)])
    /\ pc' = "error"
    /\ UNCHANGED <<tc, callIdx, args, mem, units, ctx>>

NextConfig ==
    \/ ConfigInit
    \/ ConfigRaise

InitConfig == Start(ConfigCases)

SpecConfig == InitConfig /\ [][NextConfig]_vars

\* What the caller asked for is acceptable: every requested width is at
\* least hidden_size and a multiple of it, and a list has one entry per layer.
Acceptable(c) ==
    /\ c.value_dim.kind = "int" =>
        /\ c.value_dim.int >= c.hidden_size
        /\ c.value_dim.int % c.hidden_size = 0
    /\ c.value_dim.kind = "list" =>
        /\ Len(c.value_dim.list) = c.num_hidden_layers
        /\ \A i \in DOMAIN c.value_dim.list :
            /\ c.value_dim.list[i] >= c.hidden_size
            /\ c.value_dim.list[i] % c.hidden_size = 0

\* C23: a constructed RWKV7Config has value_dim a list with one entry per
\* layer, every entry at least hidden_size and divisible by it (None became
\* hidden_size per layer, an int was replicated, a list was kept); an int or a
\* list entry that is too small or not a multiple, or a list of the wrong
\* length, ends the constructor with an assertion error instead.
C23_ValueDimNormalised ==
    /\ pc = "done" =>
        /\ Acceptable(tc)
        /\ Len(ctx.value_dim) = ctx.num_hidden_layers
        /\ \A i \in DOMAIN ctx.value_dim :
            /\ ctx.value_dim[i] >= ctx.hidden_size
            /\ ctx.value_dim[i] % ctx.hidden_size = 0
            /\ tc.value_dim.kind = "none" => ctx.value_dim[i] = tc.hidden_size
            /\ tc.value_dim.kind = "int" => ctx.value_dim[i] = tc.value_dim.int
            /\ tc.value_dim.kind = "list" => ctx.value_dim[i] = tc.value_dim.list[i]
    /\ pc = "error" =>
        /\ ~Acceptable(tc)
        /\ ctx = NoCtx
        /\ Len(log) = 1
        /\ log[1].error = "AssertionError"

C23_Witness ==
    /\ pc = "done"
    /\ tc.value_dim.kind = "int"
    /\ tc.hidden_size = 2
    /\ ctx.value_dim = <<4, 4>>

---------------------------------------------------------------------------
(* Causal short convolution (fla/modules/convolution.py).                  *)
(*                                                                         *)
(* The convolution runs on the variables of the machine above: tc is the   *)
(* caller's case, args the kernel launch in flight, mem its buffers, units *)
(* the programs of its grid, ctx the ShortConvolution module and the       *)
(* autograd context, log the results returned so far.                      *)
(*                                                                         *)
(* A program of these kernels has no loop that carries registers over      *)
(* memory accesses of other programs (it loads inputs, computes, stores    *)
(* its own block), so one program is one step.  A block-pointer load with  *)
(* boundary_check and no padding_option gives 0 for an out-of-bounds lane, *)
(* as the predicated loads of the compiled kernel do; the kernels rely on  *)
(* it for the causal padding.  sigmoid is evaluated in eighths.            *)

MaxD == 2
MaxW == 3

ConvBD == 16

UpdateBD == 8

StatesBDCap == 256

BTCap == 64

MinTokens == 16

Max(a, b) == IF a > b THEN a ELSE b

\* tl.sigmoid in eighths, rounded to nearest.
Sigmoid8(v) ==
    IF v <= -3 THEN 0
    ELSE IF v = -2 THEN 1
    ELSE IF v = -1 THEN 2
    ELSE IF v = 0 THEN 4
    ELSE IF v = 1 THEN 6
    ELSE IF v = 2 THEN 7
    ELSE 8

\* b_y * tl.sigmoid(b_y)
Swish(v) == (v * Sigmoid8(v)) \div 8

Activate(act, v) == IF act \in {"swish", "silu"} THEN Swish(v) ELSE v

\* b_dy * b_ys * (1 + b_y * (1 - b_ys))
SwishGrad(dy, y) ==
    (dy * Sigmoid8(y) * (8 + y * (8 - Sigmoid8(y)))) \div 64

\* Element (r, c) of the block loaded through
\* tl.make_block_ptr(t + base, (rows, cols), (cols, 1), ...) with
\* boundary_check=(0, 1).
BlockLoad(t, base, rows, cols, r, c) ==
    IF r >= 0 /\ r < rows /\ c >= 0 /\ c < cols
    THEN t.data[base + r * cols + c]
    ELSE 0

\* A store of the values val[a] to the addresses a of its domain.
StoreAt(t, val) ==
    [t EXCEPT !.data = [a \in DOMAIN @ \cup DOMAIN val |->
                            IF a \in DOMAIN val THEN val[a] ELSE @[a]]]

\* fla.ops.utils.prepare_chunk_indices: the pairs (sequence, chunk within the
\* sequence) of the chunks of BT tokens of the sequences n, n + 1, ...
RECURSIVE prepare_chunk_indices(_, _, _)
prepare_chunk_indices(cu_seqlens, BT, n) ==
    IF n >= cu_seqlens.shape[1] - 1 THEN <<>>
    ELSE [i \in 1 .. cdiv(cu_seqlens.data[n + 1] - cu_seqlens.data[n], BT) |->
             <<n, i - 1>>]
         \o prepare_chunk_indices(cu_seqlens, BT, n + 1)

\* BT of causal_conv1d_fwd and causal_conv1d_bwd on a device of sm
\* multiprocessors.
ConvBT(B, T, sm) ==
    Min(BTCap, next_power_of_2(cdiv(Max(MinTokens, B * T), sm)))

\* The registers a program (i_d, i_t, i_b) of the forward or backward grid
\* sets up first.
ConvProgram(a, g) ==
    LET varlen == ~a.cu_seqlens.none
        i_n == IF varlen THEN a.chunk_indices[g[2] + 1][1] ELSE g[3]
        i_t == IF varlen THEN a.chunk_indices[g[2] + 1][2] ELSE g[2]
        bos == IF varlen THEN a.cu_seqlens.data[i_n] ELSE g[3] * a.T
        eos == IF varlen THEN a.cu_seqlens.data[i_n + 1] ELSE g[3] * a.T + a.T
    IN  [i_d |-> g[1], i_n |-> i_n, i_t |-> i_t,
         i_tg |-> IF varlen THEN g[2] ELSE g[3] * a.NT + g[2],
         bos |-> bos, eos |-> eos, T |-> eos - bos]

\* Rows (tokens of the sequence) and channels of the block of program p that
\* lie inside the (T, D) tensor: the lanes a boundary-checked store keeps.
ConvRows(a, p) == {t \in p.i_t * a.BT .. p.i_t * a.BT + a.BT - 1 : t < p.T}

ConvCols(a, p) == {d \in p.i_d * a.BD .. p.i_d * a.BD + a.BD - 1 : d < a.D}

\* The addresses of the block of program p in a (B * T, D) tensor.
ConvBlock(a, p) == {(p.bos + t) * a.D + d : t \in ConvRows(a, p), d \in ConvCols(a, p)}

\* causal_conv1d_fwd_kernel, lines 89-133: b_y at token t of the sequence and
\* channel o_d.
ConvFwdLane(a, p, t, o_d) ==
    LET tap(i_w) ==
            IF a.initial_state.none \/ p.i_t * a.BT >= a.W
            THEN BlockLoad(a.x, p.bos * a.D, p.T, a.D, t + i_w, o_d)
            ELSE LET o_x == t + i_w
                 IN  (IF o_x >= 0 /\ o_x < p.T
                      THEN a.x.data[p.bos * a.D + o_x * a.D + o_d] ELSE 0)
                     + (IF o_x + a.W >= 0 /\ o_x < 0
                        THEN a.initial_state.data[p.i_n * a.D * a.W + o_d * a.W
                                                      + o_x + a.W]
                        ELSE 0)
        b_y == SumLanes([j \in 0 .. a.W - 1 |->
                            tap(j - a.W + 1) * a.weight.data[o_d * a.W + j]], a.W)
        biased == IF a.bias.none THEN b_y ELSE b_y + a.bias.data[o_d]
        activated == Activate(a.ACTIVATION, biased)
    IN  IF a.residual.none THEN activated
        ELSE activated + BlockLoad(a.residual, p.bos * a.D, p.T, a.D, t, o_d)

\* The y buffer after program g of the forward grid.
ConvFwdStore(a, g, y) ==
    LET p == ConvProgram(a, g)
    IN  StoreAt(y, [addr \in ConvBlock(a, p) |->
                       ConvFwdLane(a, p, (addr \div a.D) - p.bos, addr % a.D)])

\* A states kernel that keeps nothing of the initial state.
ConvStatesStore_DropInitialState(a, g, final_state) ==
    LET i_d == g[1]
        i_n == g[2]
        varlen == ~a.cu_seqlens.none
        bos == IF varlen THEN a.cu_seqlens.data[i_n] ELSE i_n * a.T
        eos == IF varlen THEN a.cu_seqlens.data[i_n + 1] ELSE i_n * a.T + a.T
        T == eos - bos
        lane(o_d, j) ==
            LET o_t == eos - a.BW + j
            IN  IF o_t >= Max(bos, eos - a.W)
                THEN a.x.data[o_t * a.D + o_d] ELSE 0
        cols == {d \in i_d * a.BD .. i_d * a.BD + a.BD - 1 : d < a.D}
        addrs == {i_n * a.D * a.W + d * a.W + o_w : d \in cols, o_w \in 0 .. a.W - 1}
    IN  StoreAt(final_state,
                [addr \in addrs |->
                    LET o_d == (addr \div a.W) % a.D
                        o_w == addr % a.W
                    IN  lane(o_d, o_w - (a.W - a.BW))])

\* causal_conv1d_states_fwd_kernel, lines 595-630: the final_state buffer after
\* program (i_d, i_n).
ConvStatesStore(a, g, final_state) ==
    LET i_d == g[1]
        i_n == g[2]
        varlen == ~a.cu_seqlens.none
        bos == IF varlen THEN a.cu_seqlens.data[i_n] ELSE i_n * a.T
        eos == IF varlen THEN a.cu_seqlens.data[i_n + 1] ELSE i_n * a.T + a.T
        T == eos - bos
        lane(o_d, j) ==
            LET o_t == eos - a.BW + j
                o_c == a.W - (a.BW - T) + j
            IN  (IF o_t >= Max(bos, eos - a.W)
                 THEN a.x.data[o_t * a.D + o_d] ELSE 0)
                + (IF ~a.initial_state.none /\ T < a.BW /\ o_c >= 0 /\ o_c < a.W
                   THEN a.initial_state.data[i_n * a.D * a.W + o_d * a.W + o_c]
                   ELSE 0)
        cols == {d \in i_d * a.BD .. i_d * a.BD + a.BD - 1 : d < a.D}
        addrs == {i_n * a.D * a.W + d * a.W + o_w : d \in cols, o_w \in 0 .. a.W - 1}
    IN  StoreAt(final_state,
                [addr \in addrs |->
                    LET o_d == (addr \div a.W) % a.D
                        o_w == addr % a.W
                    IN  lane(o_d, o_w - (a.W - a.BW))])

UpdateCacheLane_NoShift(a, cache, i_n, o_d, o_w) ==
    IF cache.none THEN 0
    ELSE IF o_w < a.W - 1
        THEN BlockLoad(cache, i_n * a.D * a.W, a.D, a.W, o_d, o_w)
    ELSE a.x.data[i_n * a.D + o_d]

\* causal_conv1d_update_kernel, lines 271-279: b_cache at row o_d and the lane
\* of column o_w.
UpdateCacheLane(a, cache, i_n, o_d, o_w) ==
    IF cache.none THEN 0
    ELSE IF o_w < a.W - 1
        THEN BlockLoad(cache, i_n * a.D * a.W, a.D, a.W, o_d, o_w + 1)
    ELSE a.x.data[i_n * a.D + o_d]

\* causal_conv1d_update_kernel, lines 281-294: b_y at row o_d.
UpdateLane(a, cache, i_n, o_d) ==
    LET b_w(o_w) == IF o_w >= 0 THEN a.weight.data[o_d * a.W + o_w] ELSE 0
        b_y == SumLanes([j \in 0 .. a.BW - 1 |->
                            UpdateCacheLane(a, cache, i_n, o_d, j + a.W - a.BW)
                                * b_w(j + a.W - a.BW)], a.BW)
        biased == IF a.bias.none THEN b_y ELSE b_y + a.bias.data[o_d]
        activated == Activate(a.ACTIVATION, biased)
    IN  IF a.residual.none THEN activated
        ELSE activated + a.residual.data[i_n * a.D + o_d]

UpdateCols(a, g) == {d \in g[1] * a.BD .. g[1] * a.BD + a.BD - 1 : d < a.D}

\* The y buffer after program (i_d, i_n) of the update grid.
UpdateStoreY(a, g, cache, y) ==
    StoreAt(y, [addr \in {g[2] * a.D + d : d \in UpdateCols(a, g)} |->
                   UpdateLane(a, cache, g[2], addr % a.D)])

\* The cache after program (i_d, i_n) of the update grid, lines 296-300.
UpdateStoreCache(a, g, cache) ==
    IF cache.none THEN cache
    ELSE StoreAt(cache,
                 [addr \in {g[2] * a.D * a.W + d * a.W + o_w :
                               d \in UpdateCols(a, g), o_w \in 0 .. a.W - 1} |->
                     UpdateCacheLane(a, cache, g[2], (addr \div a.W) % a.D,
                                     addr % a.W)])

\* causal_conv1d_bwd_kernel, lines 193-233: what program g stores to dx, dw
\* and db.
ConvBwdStore(a, g, m) ==
    LET p == ConvProgram(a, g)
        rows == p.i_t * a.BT .. p.i_t * a.BT + a.BT - 1
        b_x(t, o_d) == BlockLoad(a.x, p.bos * a.D, p.T, a.D, t, o_d)
        b_dy(t, o_d, i_w) ==
            LET dy == BlockLoad(a.dy, p.bos * a.D, p.T, a.D, t + i_w, o_d)
            IN  IF a.ACTIVATION \in {"swish", "silu"}
                THEN SwishGrad(dy, BlockLoad(a.y, p.bos * a.D, p.T, a.D,
                                             t + i_w, o_d))
                ELSE dy
        b_dx(t, o_d) ==
            SumLanes([i_w \in 0 .. a.W - 1 |->
                         b_dy(t, o_d, i_w)
                             * a.weight.data[o_d * a.W + a.W - i_w - 1]], a.W)
        b_dw(o_d, i_w) ==
            SumLanes([r \in 0 .. a.BT - 1 |->
                         b_dy(p.i_t * a.BT + r, o_d, i_w)
                             * b_x(p.i_t * a.BT + r, o_d)], a.BT)
        b_db(o_d) ==
            SumLanes([r \in 0 .. a.BT - 1 |-> b_dy(p.i_t * a.BT + r, o_d, 0)],
                     a.BT)
        dwAddrs == {p.i_tg * a.D * a.W + d * a.W + a.W - i_w - 1 :
                       d \in ConvCols(a, p), i_w \in 0 .. a.W - 1}
    IN  [m EXCEPT
            !.dw = StoreAt(@, [addr \in dwAddrs |->
                                  b_dw((addr \div a.W) % a.D,
                                       a.W - 1 - (addr % a.W))]),
            !.db = IF a.bias.none THEN @
                   ELSE StoreAt(@, [addr \in {p.i_tg * a.D + d :
                                                 d \in ConvCols(a, p)} |->
                                       b_db(addr % a.D)]),
            !.dx = StoreAt(@, [addr \in ConvBlock(a, p) |->
                                  b_dx((addr \div a.D) - p.bos, addr % a.D)])]

---------------------------------------------------------------------------
(* Causal short convolution: host functions *)

ConvNoMem ==
    [y |-> None, final_state |-> None, cache |-> None,
     dx |-> None, dw |-> None, db |-> None, dh0 |-> None]

Ready(grid) == [g \in grid |-> [pc |-> "ready"]]

AllDone == \A g \in DOMAIN units : units[g].pc = "done"

Last(s) == s[Len(s)]

\* causal_conv1d_update, lines 433-441 and 445-458: the launch arguments.
UpdateArgs(inp) ==
    LET D == Last(inp.x.shape)
        W == inp.weight.shape[2]
    IN  [path |-> "update",
         x |-> inp.x, residual |-> inp.residual, weight |-> inp.weight,
         bias |-> inp.bias, shape |-> inp.x.shape,
         D |-> D, W |-> W, N |-> Numel(inp.x.shape) \div D,
         BD |-> UpdateBD, BW |-> next_power_of_2(W),
         ACTIVATION |-> inp.activation]

\* causal_conv1d_update up to the kernel launch.  The kernel is handed the
\* caller's cache: mem.cache is that tensor's storage.
LaunchUpdate(inp) ==
    LET a == UpdateArgs(inp)
    IN  /\ args' = a
        /\ mem' = [ConvNoMem EXCEPT !.y = Empty(inp.x.shape),
                                    !.cache = inp.cache]
        /\ units' = Ready((0 .. cdiv(a.D, a.BD) - 1) \X (0 .. a.N - 1))
        /\ pc' = "conv_update"

\* causal_conv1d_fwd, lines 313-321: the launch arguments on a device of sm
\* multiprocessors.
ConvFwdArgs(inp, sm) ==
    LET B == inp.x.shape[1]
        T == inp.x.shape[2]
        D == inp.x.shape[3]
        W == inp.weight.shape[2]
        BT == ConvBT(B, T, sm)
        chunk_indices == IF inp.cu_seqlens.none THEN <<>>
                         ELSE prepare_chunk_indices(inp.cu_seqlens, BT, 0)
    IN  [path |-> "conv",
         x |-> inp.x, weight |-> inp.weight, bias |-> inp.bias,
         residual |-> inp.residual, initial_state |-> inp.initial_state,
         output_final_state |-> inp.output_final_state,
         cu_seqlens |-> inp.cu_seqlens, chunk_indices |-> chunk_indices,
         dy |-> None, y |-> None,
         B |-> B, T |-> T, D |-> D, W |-> W, BT |-> BT,
         BW |-> next_power_of_2(W), BD |-> ConvBD,
         NT |-> IF inp.cu_seqlens.none THEN cdiv(T, BT) ELSE Len(chunk_indices),
         N |-> IF inp.cu_seqlens.none THEN B ELSE inp.cu_seqlens.shape[1] - 1,
         ACTIVATION |-> inp.activation]

ConvGrid(a) == (0 .. cdiv(a.D, a.BD) - 1) \X (0 .. a.NT - 1) \X (0 .. a.B - 1)

\* What CausalConv1dFunction.forward saves for backward, lines 476-480.
ConvSaved(inp) ==
    [x |-> inp.x, weight |-> inp.weight, bias |-> inp.bias,
     residual |-> inp.residual, initial_state |-> inp.initial_state,
     activation |-> inp.activation, cu_seqlens |-> inp.cu_seqlens]

\* causal_conv1d -> CausalConv1dFunction.forward -> causal_conv1d_fwd up to the
\* kernel launch; at is the host position while the kernel runs.
LaunchConv(inp, sm, at) ==
    LET a == ConvFwdArgs(inp, sm)
    IN  /\ args' = a
        /\ mem' = [ConvNoMem EXCEPT !.y = Empty(inp.x.shape)]
        /\ units' = Ready(ConvGrid(a))
        /\ pc' = at

\* causal_conv1d_update_states, lines 639-656: the launch arguments.
StatesArgs(a) ==
    [a EXCEPT !.BD = Min(next_power_of_2(a.D), StatesBDCap)]

\* causal_conv1d_bwd, lines 365-373 and 400-421: the launch arguments; y is
\* the output recomputed without activation and residual, if any.
ConvBwdArgs(saved, dy, dht, sm, y) ==
    [ConvFwdArgs(saved @@ [output_final_state |-> FALSE], sm)
        EXCEPT !.path = "bwd", !.dy = dy, !.y = y]
    @@ [dht |-> dht]

\* causal_conv1d_bwd, lines 387-391: the buffers it allocates.
ConvBwdMem(a) ==
    [ConvNoMem EXCEPT
        !.dx = Empty(a.x.shape),
        !.dw = Empty(<<a.B * a.NT>> \o a.weight.shape),
        !.db = IF a.bias.none THEN None ELSE Empty(<<a.B * a.NT>> \o a.bias.shape),
        !.dh0 = IF a.initial_state.none THEN None
                ELSE Empty(a.initial_state.shape)]

\* causal_conv1d_bwd, lines 417-422, and CausalConv1dFunction.backward: the
\* gradients returned.
ConvBwdResult(a, m) ==
    [path |-> "bwd",
     dx |-> m.dx, dw |-> Sum0(m.dw),
     db |-> IF a.bias.none THEN None ELSE Sum0(m.db),
     dr |-> IF a.residual.none THEN None ELSE a.dy,
     dh0 |-> m.dh0]

---------------------------------------------------------------------------
(* Causal short convolution: callers of the functions *)

\* Weights without a zero entry (-2, -1, 1 or 2), so that every column of
\* the window counts in y.
ConvWeight(c) ==
    Tensor(<<c.D, c.W>>,
           [i \in Idx(<<c.D, c.W>>) |->
               IF Gen(c.seed, 12, i) <= 0 THEN Gen(c.seed, 12, i) - 1
               ELSE Gen(c.seed, 12, i)])

ConvBias(c) == IF c.bias THEN GenTensor(c.seed, 13, <<c.D>>) ELSE None

\* Single-token steps: two causal_conv1d_update calls on the same cache.
ConvUpdateCases ==
    {[scn |-> "convupdate", N |-> n, D |-> d, W |-> w, bias |-> b,
      residual |-> r, activation |-> act, cached |-> ch, seed |-> s] :
        n \in 1 .. MaxN, d \in (1 .. MaxD) \cup {UpdateBD + 1}, w \in 1 .. MaxW,
        b \in BOOLEAN, r \in BOOLEAN, act \in {"none", "silu"},
        ch \in BOOLEAN, s \in 1 .. MaxSeed}

\* Multiprocessor counts of the devices: they give BT = 2 and BT = 1.
Devices == {8, 16}

\* Training: causal_conv1d and the backward autograd calls for it, with a
\* gradient of the final state (dht, when a final state was returned) or
\* without.
ConvTrainCases ==
    {c \in
        {[scn |-> "convtrain", B |-> b, T |-> t, D |-> d, W |-> w, bias |-> bi,
          residual |-> r, activation |-> act, h0 |-> h, ofs |-> o, dht |-> g,
          sm |-> sm, seed |-> 1] :
            b \in 1 .. MaxN, t \in 1 .. MaxT, d \in 1 .. MaxD, w \in 1 .. MaxW,
            bi \in BOOLEAN, r \in BOOLEAN, act \in {"none", "silu"},
            h \in BOOLEAN, o \in BOOLEAN, g \in BOOLEAN, sm \in Devices} :
        c.dht => c.ofs}

\* State carry-over: a sequence of T1 + T2 tokens per batch row is run in two
\* calls (the second starting from the final state of the first), in one call,
\* and token by token through causal_conv1d_update.  dressed: with bias,
\* residual and activation.
ConvCarryCases ==
    {[scn |-> "convcarry", B |-> b, T |-> t1 + t2, T1 |-> t1, D |-> d, W |-> w,
      bias |-> dr, residual |-> dr,
      activation |-> IF dr THEN "silu" ELSE "none", h0 |-> h,
      sm |-> sm, seed |-> 1] :
        b \in 1 .. MaxN, t1 \in 1 .. MaxT - 1, t2 \in 1 .. MaxT - 1,
        d \in 1 .. MaxD, w \in 1 .. MaxW, dr \in BOOLEAN, h \in BOOLEAN,
        sm \in Devices}

\* The batches a ShortConvolution is called on: B rows of T tokens, or one
\* row that packs sequences of the lengths lens (cu_seqlens given).
ShortLayouts ==
    {[B |-> 2, T |-> 1, lens |-> <<>>], [B |-> 1, T |-> 2, lens |-> <<>>],
     [B |-> 1, T |-> 2, lens |-> <<1, 1>>], [B |-> 1, T |-> 3, lens |-> <<2, 1>>]}

\* The keyword arguments of one forward call: with or without a cache, a
\* requested final state, a seq_idx (only without cu_seqlens, on one row).
ShortCalls ==
    {ch \in [layout : ShortLayouts, cache : BOOLEAN, ofs : BOOLEAN,
             seq_idx : BOOLEAN] :
        ch.seq_idx => (ch.layout.lens = <<>> /\ ch.layout.B = 1)}

\* A ShortConvolution constructed with a backend argument (any other string
\* is "fft"), under a value of FLA_CONV_BACKEND or none ("unset"), in a
\* process where the causal_conv1d package is importable or not, and the
\* forward calls made on it.
ShortCases ==
    {c \in
        [scn : {"short"}, D : {MaxD}, W : {MaxW}, bias : {TRUE},
         activation : {"silu"}, backend : {"cuda", "triton", "fft"},
         env : {"unset", "cuda", "triton", "fft"}, importable : BOOLEAN,
         sm : {16}, seed : {1}, calls : ShortCalls \X ShortCalls] :
        c.backend = "fft" => c.calls[1] = c.calls[2]}

ConvScript(c) ==
    CASE c.scn = "convupdate" -> <<"update", "update">>
      [] c.scn = "short" -> <<"init">> \o [i \in 1 .. Len(c.calls) |-> "forward"]
      [] c.scn = "convtrain" -> <<"conv", "convbwd">>
      [] c.scn = "convcarry" ->
            <<"conv", "conv", "conv">> \o [t \in 1 .. c.T |-> "update"]

\* The whole inputs of a carry-over case.
CarryX(c) == GenTensor(c.seed, 11, <<c.B, c.T, c.D>>)

CarryResidual(c) ==
    IF c.residual THEN GenTensor(c.seed, 14, <<c.B, c.T, c.D>>) ELSE None

CarryH0(c) ==
    IF c.h0 THEN GenTensor(c.seed, 15, <<c.B, c.D, c.W>>) ELSE None

Zeros(shape) == Tensor(shape, [i \in Idx(shape) |-> 0])

SliceOrNone(x, lo, hi) == IF x.none THEN None ELSE SliceT(x, lo, hi)

\* The arguments of call i of the case, lg being the results so far.
ConvInputs(c, i, lg) ==
    CASE c.scn = "convupdate" ->
            [x |-> GenTensor(c.seed, 20 + i, <<c.N, 1, c.D>>),
             cache |-> IF ~c.cached THEN None
                       ELSE IF i = 1 THEN GenTensor(c.seed, 15, <<c.N, c.D, c.W>>)
                       ELSE lg[i - 1].cache,
             residual |-> IF c.residual
                          THEN GenTensor(c.seed, 30 + i, <<c.N, 1, c.D>>)
                          ELSE None,
             weight |-> ConvWeight(c), bias |-> ConvBias(c),
             activation |-> c.activation]
      [] c.scn = "convtrain" ->
            [x |-> GenTensor(c.seed, 11, <<c.B, c.T, c.D>>),
             weight |-> ConvWeight(c), bias |-> ConvBias(c),
             residual |-> IF c.residual
                          THEN GenTensor(c.seed, 14, <<c.B, c.T, c.D>>)
                          ELSE None,
             initial_state |-> IF c.h0
                               THEN GenTensor(c.seed, 15, <<c.B, c.D, c.W>>)
                               ELSE None,
             output_final_state |-> c.ofs,
             activation |-> c.activation,
             cu_seqlens |-> None]
      [] c.scn = "convcarry" ->
            LET lo == IF i = 1 \/ i = 3 THEN 0
                      ELSE IF i = 2 THEN c.T1 ELSE i - 4
                hi == IF i = 1 THEN c.T1
                      ELSE IF i = 2 \/ i = 3 THEN c.T ELSE i - 3
            IN  [x |-> SliceT(CarryX(c), lo, hi),
                 weight |-> ConvWeight(c), bias |-> ConvBias(c),
                 residual |-> SliceOrNone(CarryResidual(c), lo, hi),
                 initial_state |-> IF i = 2 THEN lg[1].final_state
                                   ELSE CarryH0(c),
                 cache |-> IF i <= 3 THEN None
                           ELSE IF i > 4 THEN lg[i - 1].cache
                           ELSE IF c.h0 THEN CarryH0(c)
                           ELSE Zeros(<<c.B, c.D, c.W>>),
                 output_final_state |-> TRUE,
                 activation |-> c.activation,
                 cu_seqlens |-> None]
      [] c.scn = "short" ->
            LET ch == c.calls[i - 1]
                l == ch.layout
                N == IF l.lens = <<>> THEN l.B ELSE Len(l.lens)
            IN  [x |-> GenTensor(c.seed, 20 + i, <<l.B, l.T, c.D>>),
                 residual |-> None,
                 cache |-> IF ch.cache
                           THEN GenTensor(c.seed, 15 + i, <<N, c.D, c.W>>)
                           ELSE None,
                 output_final_state |-> ch.ofs,
                 cu_seqlens |-> IF l.lens = <<>> THEN None ELSE CuSeqlens(l.lens),
                 seq_idx |-> ch.seq_idx]

\* The gradients autograd hands to backward call i: dy always, dht when the
\* caller's loss uses the final state.
ConvGrads(c, i, lg) ==
    [dy |-> GenTensor(c.seed, 16, <<c.B, c.T, c.D>>),
     dht |-> IF c.dht THEN GenTensor(c.seed, 17, <<c.B, c.D, c.W>>) ELSE None]

ConvAdvance ==
    /\ callIdx' = callIdx + 1
    /\ pc' = IF callIdx = Len(ConvScript(tc)) THEN "done" ELSE "call"

---------------------------------------------------------------------------
(* Causal short convolution: the steps *)

\* causal_conv1d_update called by the caller.
UpdateCall ==
    /\ pc = "call"
    /\ ConvScript(tc)[callIdx] = "update"
    /\ LaunchUpdate(ConvInputs(tc, callIdx, log))
    /\ UNCHANGED <<tc, callIdx, ctx, log>>

\* One program of causal_conv1d_update_kernel.
UpdateStep(g) ==
    /\ pc = "conv_update"
    /\ units[g].pc = "ready"
    /\ mem' = [mem EXCEPT !.y = UpdateStoreY(args, g, mem.cache, @),
                          !.cache = UpdateStoreCache(args, g, @)]
    /\ units' = [units EXCEPT ![g].pc = "done"]
    /\ UNCHANGED <<tc, pc, callIdx, args, ctx, log>>

\* causal_conv1d_update returns y.view(shape) and the cache it was handed.
UpdateReturn ==
    /\ pc = "conv_update"
    /\ AllDone
    /\ log' = Append(log, [path |-> args.path, y |-> mem.y, cache |-> mem.cache])
    /\ ConvAdvance
    /\ UNCHANGED <<tc, args, mem, units, ctx>>

NextConvUpdate ==
    \/ UpdateCall
    \/ \E g \in DOMAIN units : UpdateStep(g)
    \/ UpdateReturn

InitConvUpdate == Start(ConvUpdateCases)

SpecConvUpdate == InitConvUpdate /\ [][NextConvUpdate]_vars

\* C21: a causal_conv1d_update call that is handed a cache of width W leaves
\* in that cache, for every sequence and channel, the old columns 1 .. W-1 in
\* columns 0 .. W-2 and the new input x in column W-1, and returns as y the
\* sum over the W columns of the updated cache times the weights, plus the
\* bias, through the activation, plus the residual, when these are present.
C21_UpdateShiftsCache ==
    \A i \in 1 .. Len(log) :
        LET inp == ConvInputs(tc, i, log)
            res == log[i]
            D == tc.D
            W == tc.W
            conv(n, d) ==
                SumLanes([j \in 0 .. W - 1 |->
                             inp.weight.data[d * W + j]
                                 * res.cache.data[(n * D + d) * W + j]], W)
                + (IF inp.bias.none THEN 0 ELSE inp.bias.data[d])
        IN  ~inp.cache.none =>
                /\ Full(res.cache) /\ Full(res.y)
                /\ res.cache.shape = inp.cache.shape
                /\ \A n \in 0 .. tc.N - 1, d \in 0 .. D - 1 :
                    /\ \A j \in 0 .. W - 2 :
                          res.cache.data[(n * D + d) * W + j]
                              = inp.cache.data[(n * D + d) * W + j + 1]
                    /\ res.cache.data[(n * D + d) * W + W - 1]
                          = inp.x.data[n * D + d]
                    /\ res.y.data[n * D + d]
                          = Activate(inp.activation, conv(n, d))
                            + (IF inp.residual.none THEN 0
                               ELSE inp.residual.data[n * D + d])

C21_Witness ==
    /\ Len(log) = 2 /\ pc = "done"
    /\ tc.scn = "convupdate" /\ tc.cached
    /\ tc.N = 2 /\ tc.D = UpdateBD + 1 /\ tc.W = 3
    /\ tc.bias /\ tc.residual /\ tc.activation = "silu"
    /\ Differ(log[1].cache, log[2].cache)
    /\ NonZero(log[2].y)
    /\ log[2].cache.data[2] = ConvInputs(tc, 2, log).x.data[0]
    /\ log[2].cache.data[1] = ConvInputs(tc, 1, log).x.data[0]

---------------------------------------------------------------------------
(* Causal short convolution: forward and backward steps *)

NoModule == [none |-> TRUE]

\* The module and the autograd context after CausalConv1dFunction.forward
\* has saved its tensors.
ConvCtx(cx, inp) ==
    [none |-> FALSE,
     module |-> IF cx.none THEN NoModule ELSE cx.module,
     saved |-> ConvSaved(inp)]

\* causal_conv1d called by the caller.
ConvCall ==
    /\ pc = "call"
    /\ ConvScript(tc)[callIdx] = "conv"
    /\ LaunchConv(ConvInputs(tc, callIdx, log), tc.sm, "conv_fwd")
    /\ ctx' = ConvCtx(ctx, ConvInputs(tc, callIdx, log))
    /\ UNCHANGED <<tc, callIdx, log>>

\* One program of causal_conv1d_fwd_kernel, launched by the forward or by the
\* backward's recomputation of y.
ConvFwdStep(g) ==
    /\ pc \in {"conv_fwd", "conv_refwd"}
    /\ units[g].pc = "ready"
    /\ mem' = [mem EXCEPT !.y = ConvFwdStore(args, g, @)]
    /\ units' = [units EXCEPT ![g].pc = "done"]
    /\ UNCHANGED <<tc, pc, callIdx, args, ctx, log>>

\* causal_conv1d_fwd, lines 343-350 -> causal_conv1d_update_states up to the
\* kernel launch.
ConvStatesLaunch ==
    /\ pc = "conv_fwd"
    /\ AllDone
    /\ args.output_final_state
    /\ args' = StatesArgs(args)
    /\ mem' = [mem EXCEPT !.final_state = Empty(<<args.N, args.D, args.W>>)]
    /\ units' = Ready((0 .. cdiv(args'.D, args'.BD) - 1) \X (0 .. args.N - 1))
    /\ pc' = "conv_states"
    /\ UNCHANGED <<tc, callIdx, ctx, log>>

\* One program of causal_conv1d_states_fwd_kernel.
ConvStatesStep(g) ==
    /\ pc = "conv_states"
    /\ units[g].pc = "ready"
    /\ mem' = [mem EXCEPT !.final_state = ConvStatesStore(args, g, @)]
    /\ units' = [units EXCEPT ![g].pc = "done"]
    /\ UNCHANGED <<tc, pc, callIdx, args, ctx, log>>

\* causal_conv1d_fwd, line 351, back to the caller of causal_conv1d.
ConvReturn ==
    /\ \/ pc = "conv_fwd" /\ ~args.output_final_state
       \/ pc = "conv_states"
    /\ AllDone
    /\ log' = Append(log, [path |-> "conv", y |-> mem.y,
                           final_state |-> mem.final_state])
    /\ ConvAdvance
    /\ UNCHANGED <<tc, args, mem, units, ctx>>

ConvBackwardCheck_IgnoreDht(dht) == "ok"

\* CausalConv1dFunction.backward, lines 496-497.
ConvBackwardCheck(dht) ==
    IF ~dht.none THEN "NotImplementedError" ELSE "ok"

\* The launch of causal_conv1d_bwd_kernel, y being the recomputed output.
LaunchConvBwd(y) ==
    LET g == ConvGrads(tc, callIdx, log)
        a == ConvBwdArgs(ctx.saved, g.dy, g.dht, tc.sm, y)
    IN  /\ args' = a
        /\ mem' = ConvBwdMem(a)
        /\ units' = Ready(ConvGrid(a))
        /\ pc' = "conv_bwd"

\* CausalConv1dFunction.backward -> causal_conv1d_bwd: with an activation it
\* first launches the forward kernel to recompute y (lines 376-386), without
\* one it goes on to the backward kernel.
ConvCallBackward ==
    /\ pc = "call"
    /\ ConvScript(tc)[callIdx] = "convbwd"
    /\ ConvBackwardCheck(ConvGrads(tc, callIdx, log).dht) = "ok"
    /\ IF ctx.saved.activation # "none"
       THEN LaunchConv([ctx.saved EXCEPT !.residual = None,
                                         !.activation = "none"]
                           @@ [output_final_state |-> FALSE],
                       tc.sm, "conv_refwd")
       ELSE LaunchConvBwd(None)
    /\ UNCHANGED <<tc, callIdx, ctx, log>>

\* causal_conv1d_bwd, lines 387-416: y is recomputed, the backward kernel is
\* launched.
ConvBwdLaunch ==
    /\ pc = "conv_refwd"
    /\ AllDone
    /\ LaunchConvBwd(mem.y)
    /\ UNCHANGED <<tc, callIdx, ctx, log>>

\* One program of causal_conv1d_bwd_kernel.
ConvBwdStep(g) ==
    /\ pc = "conv_bwd"
    /\ units[g].pc = "ready"
    /\ mem' = ConvBwdStore(args, g, mem)
    /\ units' = [units EXCEPT ![g].pc = "done"]
    /\ UNCHANGED <<tc, pc, callIdx, args, ctx, log>>

\* causal_conv1d_bwd, lines 417-422, back to autograd.
ConvReturnBackward ==
    /\ pc = "conv_bwd"
    /\ AllDone
    /\ log' = Append(log, ConvBwdResult(args, mem))
    /\ ConvAdvance
    /\ UNCHANGED <<tc, args, mem, units, ctx>>

\* CausalConv1dFunction.backward handed a gradient of the final state.
ConvRaiseBackward ==
    /\ pc = "call"
    /\ ConvScript(tc)[callIdx] = "convbwd"
    /\ ConvBackwardCheck(ConvGrads(tc, callIdx, log).dht) # "ok"
    /\ log' = Append(log, [error |-> ConvBackwardCheck(ConvGrads(tc, callIdx, log).dht)])
    /\ pc' = "error"
    /\ UNCHANGED <<tc, callIdx, args, mem, units, ctx>>

NextConvTrain ==
    \/ ConvCall
    \/ \E g \in DOMAIN units : ConvFwdStep(g)
    \/ ConvStatesLaunch
    \/ \E g \in DOMAIN units : ConvStatesStep(g)
    \/ ConvReturn
    \/ ConvCallBackward
    \/ ConvBwdLaunch
    \/ \E g \in DOMAIN units : ConvBwdStep(g)
    \/ ConvReturnBackward
    \/ ConvRaiseBackward

InitConvTrain == Start(ConvTrainCases)

SpecConvTrain == InitConvTrain /\ [][NextConvTrain]_vars

\* C22: the causal-convolution backward that is handed a gradient of the
\* final state raises NotImplementedError, and it does so before anything of
\* the backward is computed: no recomputation and no backward kernel is
\* launched, no gradient buffer is allocated, no gradient is returned.
C22_BackwardRaisesOnDht ==
    (tc.dht /\ Len(log) >= 1) =>
        /\ pc \in {"call", "error"}
        /\ args.path = "conv"
        /\ mem.dx.none /\ mem.dw.none /\ mem.db.none /\ mem.dh0.none
        /\ Len(log) = 2 =>
            /\ pc = "error"
            /\ log[2] = [error |-> "NotImplementedError"]

C22_Witness ==
    /\ pc = "error"
    /\ tc.dht /\ tc.h0 /\ tc.activation = "silu"
    /\ Len(log) = 2
    /\ log[2] = [error |-> "NotImplementedError"]
    /\ Full(log[1].final_state)

\* C26: every gradient the causal-convolution backward returns is fully
\* written: dx, dw and db, the residual gradient, and dh0 whenever an
\* initial_state was supplied.
C26_GradientsFullyWritten ==
    (Len(log) = 2 /\ pc = "done") =>
        /\ Full(log[2].dx)
        /\ Full(log[2].dw)
        /\ tc.bias => Full(log[2].db)
        /\ tc.residual => Full(log[2].dr)
        /\ tc.h0 => (~log[2].dh0.none /\ Full(log[2].dh0))

NextConvCarry ==
    \/ ConvCall
    \/ \E g \in DOMAIN units : ConvFwdStep(g)
    \/ ConvStatesLaunch
    \/ \E g \in DOMAIN units : ConvStatesStep(g)
    \/ ConvReturn
    \/ UpdateCall
    \/ \E g \in DOMAIN units : UpdateStep(g)
    \/ UpdateReturn

InitConvCarry == Start(ConvCarryCases)

SpecConvCarry == InitConvCarry /\ [][NextConvCarry]_vars

\* C28: convolution state carry-over.  The final state causal_conv1d returns
\* holds, per sequence and channel, the last inputs right-aligned (column W-j
\* is the input at position T-j, 1 <= j <= min(T, W)) and in the remaining
\* columns the initial state shifted left by T (zero without one).  A call on
\* the continuation that starts from it gives the y and the final state of
\* the one call on the whole sequence, and T causal_conv1d_update calls on a
\* cache that starts as the initial state (zero without one) leave that same
\* final state in the cache.
C28_StateCarriesOver ==
    LET D == tc.D
        W == tc.W
        right(i) ==
            LET inp == ConvInputs(tc, i, log)
                T == inp.x.shape[2]
                fs == log[i].final_state
            IN  /\ ~fs.none /\ fs.shape = <<tc.B, D, W>> /\ Full(fs)
                /\ \A n \in 0 .. tc.B - 1, d \in 0 .. D - 1, col \in 0 .. W - 1 :
                      fs.data[(n * D + d) * W + col]
                          = IF col >= W - T
                            THEN inp.x.data[(n * T + T - (W - col)) * D + d]
                            ELSE IF inp.initial_state.none THEN 0
                            ELSE inp.initial_state.data[(n * D + d) * W + col + T]
    IN  /\ \A i \in 1 .. Min(Len(log), 3) : right(i)
        /\ Len(log) >= 3 =>
            /\ Full(log[1].y) /\ Full(log[2].y) /\ Full(log[3].y)
            /\ SliceT(log[3].y, 0, tc.T1).data = log[1].y.data
            /\ SliceT(log[3].y, tc.T1, tc.T).data = log[2].y.data
            /\ log[2].final_state.data = log[3].final_state.data
        /\ pc = "done" =>
            /\ Len(log) = 3 + tc.T
            /\ log[3 + tc.T].cache.shape = log[3].final_state.shape
            /\ log[3 + tc.T].cache.data = log[3].final_state.data

C28_Witness ==
    /\ pc = "done"
    /\ tc.scn = "convcarry" /\ tc.h0 /\ tc.residual
    /\ tc.B = 2 /\ tc.D = 2 /\ tc.W = 3 /\ tc.T1 = 1 /\ tc.T = 2
    /\ Differ(log[1].final_state, log[2].final_state)
    /\ Differ(CarryH0(tc), log[2].final_state)
    /\ log[2].final_state.data[0] = CarryH0(tc).data[2]
    /\ log[2].final_state.data[2] = CarryX(tc).data[2]
    /\ NonZero(log[2].y)

---------------------------------------------------------------------------
(* ShortConvolution *)

\* ShortConvolution.__init__, lines 702-703.
ShortInitCheck(c) ==
    IF c.backend \notin {"cuda", "triton"} THEN "ValueError" ELSE "ok"

\* ShortConvolution.__init__, lines 701-711: self.backend.  causal_conv1d_fn
\* is None when the import of lines 22-27 failed.
ShortBackend(c) ==
    IF c.backend = "cuda" /\ ~c.importable THEN "triton"
    ELSE IF c.env = "unset" THEN c.backend
    ELSE c.env

NoSaved == [none |-> TRUE]

\* The module after ShortConvolution.__init__.
ShortModule(c) ==
    [none |-> FALSE, hidden_size |-> c.D, kernel_size |-> c.W,
     weight |-> ConvWeight(c), bias |-> ConvBias(c),
     activation |-> c.activation, backend |-> ShortBackend(c)]

\* ShortConvolution.__init__ running to its end.
ShortInit ==
    /\ pc = "call"
    /\ ConvScript(tc)[callIdx] = "init"
    /\ ShortInitCheck(tc) = "ok"
    /\ ctx' = [none |-> FALSE, module |-> ShortModule(tc), saved |-> NoSaved]
    /\ log' = Append(log, [path |-> "init"])
    /\ ConvAdvance
    /\ UNCHANGED <<tc, args, mem, units>>

\* ShortConvolution.__init__ stopped by the check of the backend argument.
ShortInitRaise ==
    /\ pc = "call"
    /\ ConvScript(tc)[callIdx] = "init"
    /\ ShortInitCheck(tc) # "ok"
    /\ log' = Append(log, [error |-> ShortInitCheck(tc)])
    /\ pc' = "error"
    /\ UNCHANGED <<tc, callIdx, args, mem, units, ctx>>

\* N of forward and step, lines 764 and 867.
ShortN(inp) ==
    IF inp.cu_seqlens.none THEN inp.x.shape[1] ELSE inp.cu_seqlens.shape[1] - 1

\* forward, line 772: the call is a decoding step.
ShortDecode(inp) == inp.x.shape[1] * inp.x.shape[2] = ShortN(inp)

ShortSwitch_CacheOnly(m, inp) ==
    /\ m.backend = "cuda"
    /\ (~inp.cu_seqlens.none \/ inp.seq_idx) /\ ~inp.cache.none

\* forward, lines 793-796: the call asks the CUDA backend for what it does
\* not support.
ShortSwitch(m, inp) ==
    /\ m.backend = "cuda"
    /\ \/ (~inp.cu_seqlens.none \/ inp.seq_idx) /\ ~inp.cache.none
       \/ ~inp.cu_seqlens.none /\ inp.output_final_state

\* self.backend when forward dispatches: a decoding step returns through
\* step before the switch is looked at.
ShortDispatch(m, inp) ==
    IF ~ShortDecode(inp) /\ ShortSwitch(m, inp) THEN "triton" ELSE m.backend

\* step, lines 868-869: the cache handed to the update.
StepCache(m, inp) ==
    IF inp.output_final_state /\ inp.cache.none
    THEN Zeros(<<ShortN(inp), m.hidden_size, m.kernel_size>>)
    ELSE inp.cache

\* forward -> step -> causal_conv1d_update on the triton backend, up to the
\* kernel launch.
ShortForwardStep ==
    /\ pc = "call"
    /\ ConvScript(tc)[callIdx] = "forward"
    /\ LET inp == ConvInputs(tc, callIdx, log)
           m == ctx.module
       IN  /\ ShortDecode(inp)
           /\ m.backend = "triton"
           /\ LaunchUpdate([x |-> inp.x, cache |-> StepCache(m, inp),
                            residual |-> inp.residual, weight |-> m.weight,
                            bias |-> m.bias, activation |-> m.activation])
    /\ UNCHANGED <<tc, callIdx, ctx, log>>

\* forward -> causal_conv1d on the triton backend (the backend on entry, or
\* the one the call switches to), up to the kernel launch.
ShortForwardConv ==
    /\ pc = "call"
    /\ ConvScript(tc)[callIdx] = "forward"
    /\ LET inp == ConvInputs(tc, callIdx, log)
           m == ctx.module
           fn == [x |-> inp.x, weight |-> m.weight, bias |-> m.bias,
                  residual |-> inp.residual, initial_state |-> inp.cache,
                  output_final_state |-> inp.output_final_state,
                  activation |-> m.activation, cu_seqlens |-> inp.cu_seqlens]
       IN  /\ ~ShortDecode(inp)
           /\ ShortDispatch(m, inp) = "triton"
           /\ LaunchConv(fn, tc.sm, "conv_fwd")
           /\ ctx' = ConvCtx([ctx EXCEPT !.module.backend = "triton"], fn)
    /\ UNCHANGED <<tc, callIdx, log>>

\* forward or step on any other backend calls into the causal_conv1d package
\* (causal_conv1d_update_cuda, line 887, or causal_conv1d_fn, line 839), whose
\* results are outside the model.
ShortForwardCuda ==
    /\ pc = "call"
    /\ ConvScript(tc)[callIdx] = "forward"
    /\ LET inp == ConvInputs(tc, callIdx, log)
           m == ctx.module
       IN  /\ ShortDispatch(m, inp) # "triton"
           /\ tc.importable
           /\ log' = Append(log, [path |-> IF ShortDecode(inp) THEN "cuda_update"
                                           ELSE "cuda_fn"])
    /\ ConvAdvance
    /\ UNCHANGED <<tc, args, mem, units, ctx>>

\* The same call when the import failed: causal_conv1d_update_cuda or
\* causal_conv1d_fn is None and calling it raises TypeError.
ShortForwardFault ==
    /\ pc = "call"
    /\ ConvScript(tc)[callIdx] = "forward"
    /\ LET inp == ConvInputs(tc, callIdx, log)
           m == ctx.module
       IN  /\ ShortDispatch(m, inp) # "triton"
           /\ ~tc.importable
    /\ log' = Append(log, [error |-> "TypeError"])
    /\ pc' = "error"
    /\ UNCHANGED <<tc, callIdx, args, mem, units, ctx>>

NextShort ==
    \/ ShortInit
    \/ ShortInitRaise
    \/ ShortForwardStep
    \/ ShortForwardConv
    \/ ShortForwardCuda
    \/ ShortForwardFault
    \/ \E g \in DOMAIN units : UpdateStep(g)
    \/ UpdateReturn
    \/ \E g \in DOMAIN units : ConvFwdStep(g)
    \/ ConvStatesLaunch
    \/ \E g \in DOMAIN units : ConvStatesStep(g)
    \/ ConvReturn

InitShort == Start(ShortCases)

SpecShort == InitShort /\ [][NextShort]_vars

\* The y of the full-sequence convolution (causal_conv1d on the triton path)
\* on N sequences of one token each: the forward kernel's program (0, 0, n)
\* computes y of sequence n.
FullConvOnSteps(m, inp, sm) ==
    LET N == ShortN(inp)
        D == m.hidden_size
        a == ConvFwdArgs([x |-> [inp.x EXCEPT !.shape = <<N, 1, D>>],
                          weight |-> m.weight, bias |-> m.bias,
                          residual |-> inp.residual,
                          initial_state |-> inp.cache,
                          output_final_state |-> inp.output_final_state,
                          activation |-> m.activation, cu_seqlens |-> None], sm)
    IN  [addr \in 0 .. N * D - 1 |->
            ConvFwdLane(a, ConvProgram(a, <<(addr % D) \div a.BD, 0, addr \div D>>),
                        0, addr % D)]

\* C27: on the triton backend a forward call that takes the decoding path
\* (one token per sequence) returns the y of the full-sequence causal
\* convolution on that input, with a cache and without, whether or not the
\* final state is asked for.
C27_DecodeMatchesFullConv ==
    \A i \in 2 .. Len(log) :
        LET inp == ConvInputs(tc, i, log)
        IN  (ShortDecode(inp) /\ "path" \in DOMAIN log[i]
                /\ log[i].path = "update") =>
                /\ Full(log[i].y)
                /\ log[i].y.data = FullConvOnSteps(ctx.module, inp, tc.sm)

\* C29: once a ShortConvolution is constructed, self.backend is 'cuda' or
\* 'triton', it is 'cuda' only when the causal_conv1d package was importable,
\* and no call enters the CUDA path with its functions None.
C29_BackendIsUsable ==
    ~ctx.none =>
        /\ ctx.module.backend \in {"cuda", "triton"}
        /\ ctx.module.backend = "cuda" => tc.importable
        /\ \A i \in 1 .. Len(log) :
              "error" \in DOMAIN log[i] => log[i].error # "TypeError"

\* A forward call is about to be dispatched on the 'cuda' backend with
\* cu_seqlens (or seq_idx) and a cache, or with cu_seqlens and a requested
\* final state.
UnsupportedOnCuda ==
    /\ pc = "call"
    /\ ConvScript(tc)[callIdx] = "forward"
    /\ ctx.module.backend = "cuda"
    /\ LET inp == ConvInputs(tc, callIdx, log)
       IN  \/ (~inp.cu_seqlens.none \/ inp.seq_idx) /\ ~inp.cache.none
           \/ ~inp.cu_seqlens.none /\ inp.output_final_state

\* Once 'triton', self.backend stays 'triton'.
StaysTriton ==
    (~ctx.none /\ ctx.module.backend = "triton") =>
        ctx'.module.backend = "triton"

\* C30 as stated: every forward call on the 'cuda' backend that combines
\* cu_seqlens (or seq_idx) with a cache, or cu_seqlens with
\* output_final_state, sets the backend to 'triton' and runs on triton, and
\* the backend never leaves 'triton' afterwards.
C30_EveryUnsupportedCallSwitches ==
    [][/\ UnsupportedOnCuda =>
            /\ ctx'.module.backend = "triton"
            /\ pc' \in {"conv_fwd", "conv_update"}
       /\ StaysTriton]_vars

\* C30, amended: such a call that is not a decoding step (B*T # N) sets the
\* backend to 'triton' and runs causal_conv1d on triton; a decoding step
\* returns through step on the backend it found, which it leaves as it is;
\* the backend never leaves 'triton' once there.
C30_PrefillSwitchesOneWay ==
    [][/\ UnsupportedOnCuda =>
            IF ShortDecode(ConvInputs(tc, callIdx, log))
            THEN /\ ctx'.module.backend = "cuda"
                 /\ pc' \in {"call", "done", "error"}
            ELSE /\ ctx'.module.backend = "triton"
                 /\ pc' = "conv_fwd"
                 /\ args'.path = "conv"
       /\ StaysTriton]_vars

C30_Witness ==
    /\ pc = "done"
    /\ tc.backend = "cuda" /\ tc.env = "unset" /\ tc.importable
    /\ tc.calls[1].layout.lens = <<2, 1>> /\ tc.calls[1].cache
    /\ tc.calls[2].layout.lens = <<>> /\ tc.calls[2].layout.T = 2
    /\ ~tc.calls[2].cache /\ ~tc.calls[2].ofs /\ ~tc.calls[2].seq_idx
    /\ Len(log) = 3
    /\ log[2].path = "conv" /\ log[3].path = "conv"
    /\ ctx.module.backend = "triton"

=============================================================================
